---- MODULE Spec2Model ----
(***************************************************************************)
(* Building Graph Explorer: the element loader (src/src/data_loader.py),   *)
(* the graph service over the ArangoDB collections building_vertices and   *)
(* building_edges (src/src/graph_service.py) and the query engine          *)
(* (src/src/queries.py).                                                   *)
(*                                                                         *)
(* Strings are sequences of tokens, so that the f-strings of the code      *)
(* (edge keys, document handles) are concatenations and not identities:    *)
(* the id "rm_1" is <<"rm_1">>, the key "rm_1_PART_OF_fl_1" is             *)
(* <<"rm_1", "_", "PART_OF", "_", "fl_1">>.                                *)
(* An Optional[T] is a sequence of length 0 (None) or 1 (the value).       *)
(***************************************************************************)
EXTENDS Naturals, Sequences, FiniteSets, TLC

VARIABLES
    vertices,   \* collection building_vertices: _key -> document
    edges,      \* collection building_edges:    _key -> edge document
    loaded,     \* what load_and_parse_data gave the caller (demo.py: data)
    ret         \* the last operation: its name, its arguments, what it returned

vars == <<vertices, edges, loaded, ret>>

----------------------------------------------------------------------------
(* Bounds of the model                                                     *)

\* the most items one input file holds
MaxElems == 3

\* the most times in a row one list is built
MaxBuilds == 2

\* the largest max_depth a query is given
MaxDepthArg == 2

----------------------------------------------------------------------------
(* Python values                                                           *)

None == <<>>
Some(x) == <<x>>

\* bool(s) of an Optional[str]: None and "" are falsy
TruthyStr(s) == s # None /\ s[1] # <<>>

\* bool(l) of an Optional[List]: None and [] are falsy
TruthyList(l) == l # None /\ Len(l[1]) > 0

RECURSIVE SeqToSet(_)
SeqToSet(s) == IF s = <<>> THEN {} ELSE {Head(s)} \cup SeqToSet(Tail(s))

\* the element of a set of one element: {F(x) : x \in {e}} has e worked out
\* once, where a LET would work it out at every use
Once(S) == CHOOSE x \in S : TRUE

\* all sequences over S of length n, and of length at most n
RECURSIVE SeqsOfLen(_, _)
SeqsOfLen(S, n) ==
    IF n = 0 THEN {<<>>}
    ELSE {Append(s, x) : s \in SeqsOfLen(S, n - 1), x \in S}

SeqsUpTo(S, n) == UNION {SeqsOfLen(S, k) : k \in 0..n}

----------------------------------------------------------------------------
(* models.py: BuildingElement (name and properties carry no logic here)    *)

BuildingElement(id, type, parent_id, connects) ==
    [id |-> id, type |-> type, parent_id |-> parent_id, connects |-> connects]

----------------------------------------------------------------------------
(* data_loader.py                                                          *)

ALLOWED_EXTERNAL_IDS == {<<"outside">>, <<"corridor">>}

\* process_items: every item becomes a BuildingElement; an item without a
\* "type" field takes the default type of its top-level key.
RECURSIVE process_items(_, _)
process_items(items, default_type) ==
    IF items = <<>> THEN <<>>
    ELSE LET item == Head(items)
             type == IF item.type = None THEN default_type ELSE item.type[1]
         IN  <<BuildingElement(item.id, type, item.parent_id, item.connects)>>
                 \o process_items(Tail(items), default_type)

\* step 3: the top-level keys in the order the loader reads them
parse_entities(data) ==
    process_items(data.project, "Project")
        \o process_items(data.site, "Site")
        \o process_items(data.buildings, "Building")
        \o process_items(data.floors, "Floor")
        \o process_items(data.rooms, "Room")
        \o process_items(data.doors, "Door")
        \o process_items(data.windows, "Window")

all_ids_of(elements) == {elements[i].id : i \in 1..Len(elements)}

\* parent_ok without the external anchors
parent_ok_no_anchors(element, all_ids) ==
    TruthyStr(element.parent_id) => element.parent_id[1] \in all_ids

\* 4.2: is the parent reference of this element acceptable
parent_ok(element, all_ids) ==
    TruthyStr(element.parent_id) =>
        (element.parent_id[1] \in all_ids
            \/ element.parent_id[1] \in ALLOWED_EXTERNAL_IDS)

\* 4.3: is this connects entry acceptable
target_ok(target_id, all_ids) ==
    target_id \in all_ids \/ target_id \in ALLOWED_EXTERNAL_IDS

\* checked_targets that looks at the first entry of connects only
checked_targets_first_only(element) ==
    IF element.type = "Door" /\ TruthyList(element.connects)
    THEN <<Head(element.connects[1])>> ELSE <<>>

\* 4.3: the entries of a Door's connects that are checked
checked_targets(element) ==
    IF element.type = "Door" /\ TruthyList(element.connects)
    THEN element.connects[1] ELSE <<>>

Ok(elements) == [status |-> "ok", elements |-> elements, error |-> <<>>]
Raise(kind, a, b) ==
    [status |-> "error", elements |-> <<>>, error |-> <<kind, a, b>>]

\* steps 3 and 4 of load_and_parse_data: the list, or the first ValueError
load_and_parse_data(data) ==
    LET elements == parse_entities(data)
        all_ids == all_ids_of(elements)
        n == Len(elements)
        BadParents == {i \in 1..n : ~parent_ok(elements[i], all_ids)}
        BadDoors == {i \in 1..n :
            \E j \in 1..Len(checked_targets(elements[i])) :
                ~target_ok(checked_targets(elements[i])[j], all_ids)}
    IN  IF Cardinality(all_ids) # n
        THEN Raise("Duplicate element IDs detected in input data.", <<>>, <<>>)
        ELSE IF BadParents # {}
        THEN LET i == CHOOSE k \in BadParents : \A m \in BadParents : k <= m
             IN  Raise("Invalid parent_id", elements[i].parent_id[1], elements[i].id)
        ELSE IF BadDoors # {}
        THEN LET i == CHOOSE k \in BadDoors : \A m \in BadDoors : k <= m
                 ts == checked_targets(elements[i])
                 j == CHOOSE k \in 1..Len(ts) :
                        /\ ~target_ok(ts[k], all_ids)
                        /\ \A m \in 1..(k - 1) : target_ok(ts[m], all_ids)
             IN  Raise("Door connects to non-existent element", elements[i].id, ts[j])
        ELSE Ok(elements)

----------------------------------------------------------------------------
(* graph_service.py: the store                                             *)

\* f"building_vertices/{id}"
Handle(id) == <<"building_vertices", "/">> \o id

\* str.replace("/", "_")
RECURSIVE replace_slash(_)
replace_slash(s) ==
    IF s = <<>> THEN <<>>
    ELSE <<IF Head(s) = "/" THEN "_" ELSE Head(s)>> \o replace_slash(Tail(s))

\* f"{from_id}_{relationship}_{to_id}".replace("/", "_")
edge_key(from_id, relationship, to_id) ==
    replace_slash(from_id \o <<"_", relationship, "_">> \o to_id)

\* collection.insert(doc, overwrite=True)
insert_overwrite(coll, key, doc) ==
    [k \in DOMAIN coll \cup {key} |-> IF k = key THEN doc ELSE coll[k]]

upsert_vertex(V, element) == insert_overwrite(V, element.id, element)

\* upsert_edge that leaves the key to the store, which numbers the documents
upsert_edge_autokey(E, from_id, to_id, relationship, properties) ==
    insert_overwrite(E,
        edge_key(from_id, relationship, to_id)
            \o <<"#", ToString(Cardinality(DOMAIN E))>>,
        [_from |-> Handle(from_id), _to |-> Handle(to_id),
         relationship |-> relationship, properties |-> properties])

upsert_edge(E, from_id, to_id, relationship, properties) ==
    insert_overwrite(E, edge_key(from_id, relationship, to_id),
        [_from |-> Handle(from_id), _to |-> Handle(to_id),
         relationship |-> relationship, properties |-> properties])

\* self.vertices.has(key)
has(V, key) == key \in DOMAIN V

\* one entry of the record of the store writes a build issues
VertexCall(element) ==
    [call |-> "upsert_vertex", from |-> element.id, to |-> element.id,
     relationship |-> "", properties |-> <<>>]
EdgeCall(from_id, to_id, relationship, properties) ==
    [call |-> "upsert_edge", from |-> from_id, to |-> to_id,
     relationship |-> relationship, properties |-> properties]

\* the state a build threads through its loops
BuildState(V, E, calls, vertex_count, edge_count) ==
    [V |-> V, E |-> E, calls |-> calls,
     vertex_count |-> vertex_count, edge_count |-> edge_count]

\* self.upsert_edge(...) inside build_graph_from_data
do_upsert_edge(st, from_id, to_id, relationship, properties) ==
    [st EXCEPT !.E = upsert_edge(st.E, from_id, to_id, relationship, properties),
               !.calls = Append(st.calls,
                            EdgeCall(from_id, to_id, relationship, properties))]

\* 1. Insert vertices
RECURSIVE insert_vertices(_, _)
insert_vertices(st, elements) ==
    IF elements = <<>> THEN st
    ELSE LET element == Head(elements)
         IN  insert_vertices(
                 [st EXCEPT !.V = upsert_vertex(st.V, element),
                            !.calls = Append(st.calls, VertexCall(element)),
                            !.vertex_count = st.vertex_count + 1],
                 Tail(elements))

\* part_of_contains without the check that the parent is a vertex
part_of_contains_unchecked(st, element) ==
    IF TruthyStr(element.parent_id)
    THEN LET s1 == do_upsert_edge(st, element.id, element.parent_id[1],
                                  "PART_OF", <<>>)
             s2 == do_upsert_edge(s1, element.parent_id[1], element.id,
                                  "CONTAINS", <<>>)
         IN  [s2 EXCEPT !.edge_count = s2.edge_count + 2]
    ELSE st

\* 2.1 PART_OF and CONTAINS
part_of_contains(st, element) ==
    IF TruthyStr(element.parent_id) /\ has(st.V, element.parent_id[1])
    THEN LET s1 == do_upsert_edge(st, element.id, element.parent_id[1],
                                  "PART_OF", <<>>)
             s2 == do_upsert_edge(s1, element.parent_id[1], element.id,
                                  "CONTAINS", <<>>)
         IN  [s2 EXCEPT !.edge_count = s2.edge_count + 2]
    ELSE st

\* 2.2 HAS_OPENING (Room -> Door/Window)
has_opening(st, element) ==
    IF element.type \in {"Door", "Window"} /\ TruthyStr(element.parent_id)
       /\ has(st.V, element.parent_id[1])
    THEN LET s1 == do_upsert_edge(st, element.parent_id[1], element.id,
                                  "HAS_OPENING", <<>>)
         IN  [s1 EXCEPT !.edge_count = s1.edge_count + 1]
    ELSE st

\* connects_to without the check that both rooms are vertices
connects_to_unchecked(st, element) ==
    IF element.type = "Door" /\ TruthyList(element.connects)
       /\ Len(element.connects[1]) = 2
    THEN LET room_1 == element.connects[1][1]
             room_2 == element.connects[1][2]
             s1 == do_upsert_edge(st, room_1, room_2, "CONNECTS_TO",
                                  <<"via_door", element.id>>)
             s2 == do_upsert_edge(s1, room_2, room_1, "CONNECTS_TO",
                                  <<"via_door", element.id>>)
         IN  [s2 EXCEPT !.edge_count = s2.edge_count + 2]
    ELSE st

\* connects_to that upserts the edge from room_1 to room_2 only
connects_to_one_way(st, element) ==
    IF element.type = "Door" /\ TruthyList(element.connects)
       /\ Len(element.connects[1]) = 2
    THEN LET room_1 == element.connects[1][1]
             room_2 == element.connects[1][2]
         IN  IF has(st.V, room_1) /\ has(st.V, room_2)
             THEN LET s1 == do_upsert_edge(st, room_1, room_2, "CONNECTS_TO",
                                           <<"via_door", element.id>>)
                  IN  [s1 EXCEPT !.edge_count = s1.edge_count + 2]
             ELSE st
    ELSE st

\* connects_to without the test of the type
connects_to_any_type(st, element) ==
    IF TruthyList(element.connects)
       /\ Len(element.connects[1]) = 2
    THEN LET room_1 == element.connects[1][1]
             room_2 == element.connects[1][2]
         IN  IF has(st.V, room_1) /\ has(st.V, room_2)
             THEN LET s1 == do_upsert_edge(st, room_1, room_2, "CONNECTS_TO",
                                           <<"via_door", element.id>>)
                      s2 == do_upsert_edge(s1, room_2, room_1, "CONNECTS_TO",
                                           <<"via_door", element.id>>)
                  IN  [s2 EXCEPT !.edge_count = s2.edge_count + 2]
             ELSE st
    ELSE st

\* 2.3 CONNECTS_TO (Room <-> Room via Door)
connects_to(st, element) ==
    IF element.type = "Door" /\ TruthyList(element.connects)
       /\ Len(element.connects[1]) = 2
    THEN LET room_1 == element.connects[1][1]
             room_2 == element.connects[1][2]
         IN  IF has(st.V, room_1) /\ has(st.V, room_2)
             THEN LET s1 == do_upsert_edge(st, room_1, room_2, "CONNECTS_TO",
                                           <<"via_door", element.id>>)
                      s2 == do_upsert_edge(s1, room_2, room_1, "CONNECTS_TO",
                                           <<"via_door", element.id>>)
                  IN  [s2 EXCEPT !.edge_count = s2.edge_count + 2]
             ELSE st
    ELSE st

\* create_relationships that applies each rule to the whole list before the
\* next rule
create_relationships_by_kind(st, elements) ==
    LET n == Len(elements)
        p1[k \in 0..n] ==
            IF k = 0 THEN st ELSE part_of_contains(p1[k - 1], elements[k])
        p2[k \in 0..n] ==
            IF k = 0 THEN p1[n] ELSE has_opening(p2[k - 1], elements[k])
        p3[k \in 0..n] ==
            IF k = 0 THEN p2[n] ELSE connects_to(p3[k - 1], elements[k])
    IN  p3[n]

\* 2. Create relationships (edges)
RECURSIVE create_relationships(_, _)
create_relationships(st, elements) ==
    IF elements = <<>> THEN st
    ELSE create_relationships(
             connects_to(has_opening(part_of_contains(st, Head(elements)),
                                     Head(elements)),
                         Head(elements)),
             Tail(elements))

\* build_graph_from_data in one pass: each element's vertex is upserted and
\* its edges derived before the next element is looked at
build_graph_from_data_one_pass(V, E, elements) ==
    LET n == Len(elements)
        pass[k \in 0..n] ==
            IF k = 0 THEN BuildState(V, E, <<>>, 0, 0)
            ELSE create_relationships(
                    insert_vertices(pass[k - 1], <<elements[k]>>),
                    <<elements[k]>>)
    IN  pass[n]

\* build_graph_from_data on the store (V, E): the store it leaves, the writes
\* it issued and the counts it returns
build_graph_from_data(V, E, elements) ==
    create_relationships(
        insert_vertices(BuildState(V, E, <<>>, 0, 0), elements), elements)

EmptyColl == [k \in {} |-> {}]

----------------------------------------------------------------------------
(* queries.py: the store's answers                                         *)
(*                                                                         *)
(* AQL gives no order for the edges of a vertex: a query runs under a scan *)
(* order o, o.ids a sequence of vertex keys and o.kinds a sequence of      *)
(* relationship kinds, and the store returns edges by kind and then by the *)
(* key of the vertex at the other end, in that order.                      *)

Kinds == {"PART_OF", "CONTAINS", "HAS_OPENING", "CONNECTS_TO"}

Rank(seq, x) == CHOOSE i \in 1..Len(seq) : seq[i] = x

\* the elements of a finite set as a sequence, smallest key first
RECURSIVE SortBy(_, _)
SortBy(S, key) ==
    IF S = {} THEN <<>>
    ELSE Once({<<m>> \o SortBy(S \ {m}, key) :
                m \in {CHOOSE x \in S : \A y \in S : key[x] <= key[y]}})

\* the vertex key a document handle names
KeyOf(handle) == SubSeq(handle, 3, Len(handle))

\* the edge documents that leave the vertex, in scan order
OutEdges(E, o, id) ==
    LET S == {k \in DOMAIN E : E[k]._from = Handle(id)}
        key == [k \in S |->
                    Rank(o.kinds, E[k].relationship) * (Len(o.ids) + 1)
                        + Rank(o.ids, KeyOf(E[k]._to))]
    IN  Once({[i \in 1..Len(ks) |-> E[ks[i]]] : ks \in {SortBy(S, key)}})

\* the edge documents that enter the vertex, in scan order
InEdges(E, o, id) ==
    LET S == {k \in DOMAIN E : E[k]._to = Handle(id)}
        key == [k \in S |->
                    Rank(o.kinds, E[k].relationship) * (Len(o.ids) + 1)
                        + Rank(o.ids, KeyOf(E[k]._from))]
    IN  Once({[i \in 1..Len(ks) |-> E[ks[i]]] : ks \in {SortBy(S, key)}})

\* FOR v, e IN 1..1 OUTBOUND @start building_edges
\*     FILTER e.relationship == kind RETURN v
outbound_neighbors(V, E, o, id, kind) ==
    LET IsKind(e) == e.relationship = kind
    IN  Once({[i \in 1..Len(es) |-> V[KeyOf(es[i]._to)]] :
                es \in {SelectSeq(OutEdges(E, o, id), IsKind)}})

\* any_neighbor_keys that follows the hierarchy edges only
any_neighbor_keys_hierarchy(V, E, o, id) ==
    LET Hier(e) == e.relationship \in {"PART_OF", "CONTAINS"}
        out == SelectSeq(OutEdges(E, o, id), Hier)
        in == SelectSeq(InEdges(E, o, id), Hier)
    IN  [i \in 1..Len(out) |-> V[KeyOf(out[i]._to)].id]
            \o [i \in 1..Len(in) |-> V[KeyOf(in[i]._from)].id]

\* any_neighbor_keys with OUTBOUND for ANY and PART_OF edges only
any_neighbor_keys_upward(V, E, o, id) ==
    LET Up(e) == e.relationship = "PART_OF"
        out == SelectSeq(OutEdges(E, o, id), Up)
    IN  [i \in 1..Len(out) |-> V[KeyOf(out[i]._to)].id]

\* any_neighbor_keys that lost its start vertex: every vertex of the store
any_neighbor_keys_unbound(V, E, o, id) ==
    LET S == DOMAIN V
        ks == SortBy(S, [k \in S |-> Rank(o.ids, k)])
    IN  [i \in 1..Len(ks) |-> V[ks[i]].id]

\* FOR v, e IN 1..1 ANY @start building_edges RETURN v._key
any_neighbor_keys(V, E, o, id) ==
    Once({[i \in 1..Len(out) |-> V[KeyOf(out[i]._to)].id]
            \o [i \in 1..Len(in) |-> V[KeyOf(in[i]._from)].id] :
          out \in {OutEdges(E, o, id)}, in \in {InEdges(E, o, id)}})

\* self.gs.vertices.get(element_id)
get_element_by_id(V, element_id) ==
    IF element_id \in DOMAIN V THEN Some(V[element_id]) ELSE None

get_children(V, E, o, element_id) ==
    outbound_neighbors(V, E, o, element_id, "CONTAINS")

get_connected_rooms(V, E, o, room_id) ==
    outbound_neighbors(V, E, o, room_id, "CONNECTS_TO")

\* get_room_openings that files every neighbour that is no Door under windows
get_room_openings_rest_are_windows(V, E, o, room_id) ==
    LET IsDoor(element) == element.type = "Door"
        IsNoDoor(element) == element.type # "Door"
    IN  Once({[doors |-> SelectSeq(elements, IsDoor),
               windows |-> SelectSeq(elements, IsNoDoor)] :
              elements \in {outbound_neighbors(V, E, o, room_id, "HAS_OPENING")}})

\* the cursor is read into elements once; the two lists are filtered from it
get_room_openings(V, E, o, room_id) ==
    LET IsDoor(element) == element.type = "Door"
        IsWindow(element) == element.type = "Window"
    IN  Once({[doors |-> SelectSeq(elements, IsDoor),
               windows |-> SelectSeq(elements, IsWindow)] :
              elements \in {outbound_neighbors(V, E, o, room_id, "HAS_OPENING")}})

\* the keys of a list of documents
KeysOf(docs) == [i \in 1..Len(docs) |-> docs[i].id]

\* too_deep with >= for >
too_deep_ge(max_depth, depth) == max_depth # None /\ depth >= max_depth[1]

\* if max_depth is not None and depth > max_depth
too_deep(max_depth, depth) == max_depth # None /\ depth > max_depth[1]

\* descend_step that also emits the vertex the traversal started from
descend_step_emits_start(V, E, o, element_id, max_depth, st) ==
    LET n == Len(st.stack)
        current_id == st.stack[n][1]
        depth == st.stack[n][2]
        popped == [st EXCEPT !.stack = SubSeq(st.stack, 1, n - 1)]
    IN  IF current_id \in st.visited
        THEN popped
        ELSE IF too_deep(max_depth, depth)
        THEN popped
        ELSE LET node == get_element_by_id(V, current_id)
                 Pushed(children) ==
                    [stack |-> popped.stack
                        \o [i \in 1..Len(children) |->
                                <<children[i].id, depth + 1>>],
                     visited |-> st.visited \cup {current_id},
                     descendants |->
                        IF node # None
                        THEN Append(st.descendants, node[1])
                        ELSE st.descendants,
                     expanded |-> Append(st.expanded, current_id)]
             IN  Once({Pushed(children) :
                        children \in {get_children(V, E, o, current_id)}})

\* descend_step that asks for the children of the start vertex only
descend_step_one_level(V, E, o, element_id, max_depth, st) ==
    LET n == Len(st.stack)
        current_id == st.stack[n][1]
        depth == st.stack[n][2]
        popped == [st EXCEPT !.stack = SubSeq(st.stack, 1, n - 1)]
    IN  IF current_id \in st.visited
        THEN popped
        ELSE IF too_deep(max_depth, depth)
        THEN popped
        ELSE LET node == get_element_by_id(V, current_id)
                 Pushed(children) ==
                    [stack |-> popped.stack
                        \o [i \in 1..Len(children) |->
                                <<children[i].id, depth + 1>>],
                     visited |-> st.visited \cup {current_id},
                     descendants |->
                        IF current_id # element_id /\ node # None
                        THEN Append(st.descendants, node[1])
                        ELSE st.descendants,
                     expanded |-> Append(st.expanded, current_id)]
             IN  Once({Pushed(children) :
                        children \in {IF current_id = element_id
                                      THEN get_children(V, E, o, current_id)
                                      ELSE <<>>}})

\* descend_step that leaves a visited vertex on the stack
descend_step_keeps_visited(V, E, o, element_id, max_depth, st) ==
    LET n == Len(st.stack)
        current_id == st.stack[n][1]
        depth == st.stack[n][2]
        popped == [st EXCEPT !.stack = SubSeq(st.stack, 1, n - 1)]
    IN  IF current_id \in st.visited
        THEN st
        ELSE IF too_deep(max_depth, depth)
        THEN popped
        ELSE LET node == get_element_by_id(V, current_id)
                 Pushed(children) ==
                    [stack |-> popped.stack
                        \o [i \in 1..Len(children) |->
                                <<children[i].id, depth + 1>>],
                     visited |-> st.visited \cup {current_id},
                     descendants |->
                        IF current_id # element_id /\ node # None
                        THEN Append(st.descendants, node[1])
                        ELSE st.descendants,
                     expanded |-> Append(st.expanded, current_id)]
             IN  Once({Pushed(children) :
                        children \in {get_children(V, E, o, current_id)}})

\* descend_step that adds a vertex popped beyond max_depth to visited
descend_step_marks_too_deep(V, E, o, element_id, max_depth, st) ==
    LET n == Len(st.stack)
        current_id == st.stack[n][1]
        depth == st.stack[n][2]
        popped == [st EXCEPT !.stack = SubSeq(st.stack, 1, n - 1)]
    IN  IF current_id \in st.visited
        THEN popped
        ELSE IF too_deep(max_depth, depth)
        THEN [popped EXCEPT !.visited = st.visited \cup {current_id}]
        ELSE LET node == get_element_by_id(V, current_id)
                 Pushed(children) ==
                    [stack |-> popped.stack
                        \o [i \in 1..Len(children) |->
                                <<children[i].id, depth + 1>>],
                     visited |-> st.visited \cup {current_id},
                     descendants |->
                        IF current_id # element_id /\ node # None
                        THEN Append(st.descendants, node[1])
                        ELSE st.descendants,
                     expanded |-> Append(st.expanded, current_id)]
             IN  Once({Pushed(children) :
                        children \in {get_children(V, E, o, current_id)}})

\* descend_step that pushes the children last first, so that the first child
\* returned is the first popped
descend_step_pushes_reversed(V, E, o, element_id, max_depth, st) ==
    LET n == Len(st.stack)
        current_id == st.stack[n][1]
        depth == st.stack[n][2]
        popped == [st EXCEPT !.stack = SubSeq(st.stack, 1, n - 1)]
    IN  IF current_id \in st.visited
        THEN popped
        ELSE IF too_deep(max_depth, depth)
        THEN popped
        ELSE LET node == get_element_by_id(V, current_id)
                 Pushed(children) ==
                    [stack |-> popped.stack
                        \o [i \in 1..Len(children) |->
                                <<children[Len(children) + 1 - i].id,
                                  depth + 1>>],
                     visited |-> st.visited \cup {current_id},
                     descendants |->
                        IF current_id # element_id /\ node # None
                        THEN Append(st.descendants, node[1])
                        ELSE st.descendants,
                     expanded |-> Append(st.expanded, current_id)]
             IN  Once({Pushed(children) :
                        children \in {get_children(V, E, o, current_id)}})

\* get_descendants: one turn of the loop over the stack of (current_id,
\* depth); st holds stack, visited, descendants and, in order, the ids whose
\* children were asked
descend_step(V, E, o, element_id, max_depth, st) ==
    LET n == Len(st.stack)
        current_id == st.stack[n][1]
        depth == st.stack[n][2]
        popped == [st EXCEPT !.stack = SubSeq(st.stack, 1, n - 1)]
    IN  IF current_id \in st.visited
        THEN popped
        ELSE IF too_deep(max_depth, depth)
        THEN popped
        ELSE LET node == get_element_by_id(V, current_id)
                 Pushed(children) ==
                    [stack |-> popped.stack
                        \o [i \in 1..Len(children) |->
                                <<children[i].id, depth + 1>>],
                     visited |-> st.visited \cup {current_id},
                     descendants |->
                        IF current_id # element_id /\ node # None
                        THEN Append(st.descendants, node[1])
                        ELSE st.descendants,
                     expanded |-> Append(st.expanded, current_id)]
             IN  Once({Pushed(children) :
                        children \in {get_children(V, E, o, current_id)}})

\* get_descendants: while stack
RECURSIVE descend(_, _, _, _, _, _)
descend(V, E, o, element_id, max_depth, st) ==
    IF st.stack = <<>> THEN st
    ELSE descend(V, E, o, element_id, max_depth,
            descend_step(V, E, o, element_id, max_depth, st))

\* get_descendants: the locals before the loop
descend_start(element_id) ==
    [stack |-> <<<<element_id, 0>>>>, visited |-> {},
     descendants |-> <<>>, expanded |-> <<>>]

get_descendants_run(V, E, o, element_id, max_depth) ==
    descend(V, E, o, element_id, max_depth, descend_start(element_id))

get_descendants(V, E, o, element_id, max_depth) ==
    get_descendants_run(V, E, o, element_id, max_depth).descendants

\* the depth bound of the traversal of get_ancestors: 1..5
ANCESTOR_MAX_DEPTH == 5

\* one level of the traversal of get_ancestors: the edges that leave the
\* vertices of the level, in order; a vertex not yet visited is visited
\* (uniqueVertices: 'global'), joins the next level, and is returned when
\* the edge that reached it passes FILTER e.relationship == 'PART_OF'
RECURSIVE traverse_edges(_, _, _)
traverse_edges(V, es, st) ==
    IF es = <<>> THEN st
    ELSE LET e == Head(es)
             v == KeyOf(e._to)
         IN  IF v \in st.visited
             THEN traverse_edges(V, Tail(es), st)
             ELSE traverse_edges(V, Tail(es),
                    [visited |-> st.visited \cup {v},
                     level |-> Append(st.level, v),
                     out |-> IF e.relationship = "PART_OF"
                             THEN Append(st.out, V[v]) ELSE st.out])

RECURSIVE edges_of_level(_, _, _)
edges_of_level(E, o, level) ==
    IF level = <<>> THEN <<>>
    ELSE OutEdges(E, o, Head(level)) \o edges_of_level(E, o, Tail(level))

\* FOR v, e, p IN 1..5 OUTBOUND start building_edges
\*     OPTIONS {uniqueVertices: 'global', bfs: true}
\*     FILTER e.relationship == 'PART_OF' SORT LENGTH(p.edges) ASC RETURN v
RECURSIVE traverse_levels(_, _, _, _, _)
traverse_levels(V, E, o, depth, st) ==
    IF depth > ANCESTOR_MAX_DEPTH \/ st.level = <<>> THEN st.out
    ELSE traverse_levels(V, E, o, depth + 1,
            traverse_edges(V, edges_of_level(E, o, st.level),
                [st EXCEPT !.level = <<>>]))

get_ancestors(V, E, o, element_id) ==
    traverse_levels(V, E, o, 1,
        [visited |-> {element_id}, level |-> <<element_id>>, out |-> <<>>])

\* find_path: the inner loop over the neighbours of the path's last vertex
RECURSIVE visit_neighbors(_, _, _)
visit_neighbors(st, path, neighbors) ==
    IF neighbors = <<>> THEN st
    ELSE LET neighbor_id == Head(neighbors)
         IN  IF neighbor_id \notin st.visited
             THEN visit_neighbors(
                    [st EXCEPT !.visited = st.visited \cup {neighbor_id},
                               !.queue = Append(st.queue,
                                            Append(path, neighbor_id))],
                    path, Tail(neighbors))
             ELSE visit_neighbors(st, path, Tail(neighbors))

\* find_path: a turn of the loop over the queue of paths that does not
\* return; st holds queue, visited and the number of neighbour queries sent
search_step(V, E, o, st) ==
    LET path == Head(st.queue)
        current_id == path[Len(path)]
    IN  Once({visit_neighbors(
                [st EXCEPT !.queue = Tail(st.queue),
                           !.queries = st.queries + 1],
                path, cursor) :
              cursor \in {any_neighbor_keys(V, E, o, current_id)}})

\* find_path: return [self.get_element_by_id(node_id) for node_id in path]
found_path(V, path) == [i \in 1..Len(path) |-> get_element_by_id(V, path[i])]

\* find_path: while queue
RECURSIVE search(_, _, _, _, _)
search(V, E, o, to_id, st) ==
    IF st.queue = <<>> THEN [path |-> <<>>, queries |-> st.queries]
    ELSE LET path == Head(st.queue)
             current_id == path[Len(path)]
         IN  IF current_id = to_id
             THEN [path |-> found_path(V, path), queries |-> st.queries]
             ELSE search(V, E, o, to_id, search_step(V, E, o, st))

\* find_path: the locals before the loop
search_start(from_id) ==
    [queue |-> <<<<from_id>>>>, visited |-> {from_id}, queries |-> 0]

\* find_path without the test of the path's end before the store is asked
find_path_run_asks_first(V, E, o, from_id, to_id) ==
    LET r == search(V, E, o, to_id, search_start(from_id))
    IN  [r EXCEPT !.queries = r.queries + 1]

find_path_run(V, E, o, from_id, to_id) ==
    search(V, E, o, to_id, search_start(from_id))

find_path(V, E, o, from_id, to_id) ==
    find_path_run(V, E, o, from_id, to_id).path

----------------------------------------------------------------------------
(* The input files of Spec: the top-level keys floors, rooms, doors and     *)
(* windows, each a list of items, at most MaxElems items in all.           *)

prj_1 == <<"prj_1">>
site_1 == <<"site_1">>
bld_1 == <<"bld_1">>
bld_2 == <<"bld_2">>
fl_1 == <<"fl_1">>
fl_2 == <<"fl_2">>
rm_1 == <<"rm_1">>
rm_2 == <<"rm_2">>
dr_1 == <<"dr_1">>
wn_1 == <<"wn_1">>
ghost == <<"ghost">>
outside == <<"outside">>

Item(id, type, parent_id, connects) ==
    [id |-> id, type |-> type, parent_id |-> parent_id, connects |-> connects]

FloorItems == {Item(fl_1, None, None, None)}

RoomItems ==
    {Item(rm_1, None, p, None) : p \in {None, Some(fl_1), Some(ghost)}}
    \cup {Item(rm_2, None, p, None) : p \in {None, Some(rm_1), Some(outside)}}

\* the doors: a parent or none, connects absent, empty, of one, two and three
\* entries, naming rooms, an external anchor, an unknown id; and one item
\* that says "type": "Room" under the key doors
DoorItems ==
    {Item(dr_1, None, None, None),
     Item(dr_1, None, None, Some(<<>>)),
     Item(dr_1, None, Some(rm_1), Some(<<rm_1>>)),
     Item(dr_1, None, Some(rm_1), Some(<<rm_1, rm_2>>)),
     Item(dr_1, None, None, Some(<<rm_2, rm_1>>)),
     Item(dr_1, None, Some(rm_1), Some(<<rm_1, outside>>)),
     Item(dr_1, None, None, Some(<<rm_1, ghost>>)),
     Item(dr_1, None, Some(rm_1), Some(<<rm_1, rm_2, fl_1>>)),
     Item(dr_1, Some("Room"), None, Some(<<rm_1, ghost>>))}

WindowItems ==
    {Item(wn_1, None, p, None) : p \in {None, Some(rm_1), Some(outside)}}

\* the ways to split at most MaxElems items over the four keys
Splits ==
    {n \in [{"floors", "rooms", "doors", "windows"} -> 0..MaxElems] :
        /\ n.floors <= 1
        /\ n.floors + n.rooms + n.doors + n.windows <= MaxElems}

\* a JSON document; a key that is absent or holds no item is <<>>
Document(p, s, b, f, r, d, w) ==
    [project |-> p, site |-> s, buildings |-> b, floors |-> f, rooms |-> r,
     doors |-> d, windows |-> w]

File(f, r, d, w) == Document(<<>>, <<>>, <<>>, f, r, d, w)

----------------------------------------------------------------------------
(* The operations                                                          *)

NoRet == [op |-> "none"]
NotLoaded == [status |-> "none", elements |-> <<>>, error |-> <<>>]

Init ==
    /\ vertices = EmptyColl
    /\ edges = EmptyColl
    /\ loaded = NotLoaded
    /\ ret = NoRet

\* demo.py: data = load_and_parse_data(data_path), once per load cycle
LoadAndParse(data) ==
    /\ loaded.status = "none"
    /\ loaded' = load_and_parse_data(data)
    /\ ret' = [op |-> "load_and_parse_data", data |-> data]
    /\ UNCHANGED <<vertices, edges>>

\* how many times in a row the same list has been built, this call included
NthBuild(elements) ==
    IF ret.op = "build_graph_from_data" /\ ret.elements = elements
    THEN ret.nth + 1 ELSE 1

\* graph_service.build_graph_from_data(elements)
BuildGraph(elements) ==
    LET st == build_graph_from_data(vertices, edges, elements)
    IN  /\ NthBuild(elements) <= MaxBuilds
        /\ vertices' = st.V
        /\ edges' = st.E
        /\ ret' = [op |-> "build_graph_from_data", elements |-> elements,
                   nth |-> NthBuild(elements),
                   before |-> [V |-> vertices, E |-> edges],
                   calls |-> st.calls,
                   out |-> [vertices |-> st.vertex_count, edges |-> st.edge_count]]
        /\ UNCHANGED loaded

\* demo.py: stats = graph_service.build_graph_from_data(data)
BuildLoaded ==
    /\ loaded.status = "ok"
    /\ BuildGraph(loaded.elements)

\* delete_all_data: both collections truncated (python-arango's truncate
\* returns True); demo.py starts every run with it and then loads afresh
DeleteAll ==
    /\ vertices' = EmptyColl
    /\ edges' = EmptyColl
    /\ ret' = [op |-> "delete_all_data",
               out |-> [vertices_deleted |-> TRUE, edges_deleted |-> TRUE]]
    /\ loaded' = NotLoaded

Next ==
    \/ \E n \in Splits :
        \E f \in SeqsOfLen(FloorItems, n.floors), r \in SeqsOfLen(RoomItems, n.rooms),
           d \in SeqsOfLen(DoorItems, n.doors), w \in SeqsOfLen(WindowItems, n.windows) :
            LoadAndParse(File(f, r, d, w))
    \/ BuildLoaded
    \/ DeleteAll

Spec == Init /\ [][Next]_vars

----------------------------------------------------------------------------
(* The store under repeated builds, and the queries (tests/: each test     *)
(* hands build_graph_from_data a list of its own; test_queries.py calls    *)
(* the queries on whatever the store holds)                                *)

Element(id, type, parent_id, connects) ==
    BuildingElement(id, type, parent_id, connects)

\* the elements the builds of this specification take, one per call
QElements ==
    {Element(fl_1, "Floor", None, None)}
    \cup {Element(rm_1, "Room", p, None) : p \in {Some(fl_1), Some(rm_2)}}
    \cup {Element(rm_2, "Room", p, None) : p \in {Some(fl_1), Some(rm_2)}}
    \cup {Element(dr_1, "Door", Some(rm_1), Some(<<rm_1, rm_2>>))}

\* the ids the queries are asked about: the vertices and an unknown id
QIds == {fl_1, rm_1, rm_2, dr_1, ghost}

\* the scan orders of the model
IdOrderUp ==
    <<prj_1, site_1, bld_1, bld_2, fl_1, fl_2, rm_1, rm_2, dr_1, wn_1>>
IdOrderDown ==
    <<wn_1, dr_1, rm_2, rm_1, fl_2, fl_1, bld_2, bld_1, site_1, prj_1>>
KindOrderPartOfFirst == <<"PART_OF", "CONTAINS", "HAS_OPENING", "CONNECTS_TO">>
KindOrderPartOfLast == <<"CONNECTS_TO", "HAS_OPENING", "CONTAINS", "PART_OF">>
Orders ==
    [ids : {IdOrderUp, IdOrderDown},
     kinds : {KindOrderPartOfFirst, KindOrderPartOfLast}]
\* for the queries that read one kind, or every kind alike
IdOrders == [ids : {IdOrderUp, IdOrderDown}, kinds : {KindOrderPartOfFirst}]

\* A query reads the store and leaves it as it is: what a query returns after
\* another query is what it returns after the last write, so the model asks
\* each query of the store as the last write left it.
AfterWrite ==
    ret.op \in {"none", "load_and_parse_data", "build_graph_from_data",
                "delete_all_data"}

\* the max_depth arguments of the model: None, 0 .. MaxDepthArg
DepthArgs == {None} \cup {Some(d) : d \in 0..MaxDepthArg}

BuildOne == \E e \in QElements : BuildGraph(<<e>>)

GetChildren ==
    \E id \in QIds, o \in IdOrders :
        /\ AfterWrite
        /\ ret' = [op |-> "get_children", id |-> id, o |-> o,
                   out |-> get_children(vertices, edges, o, id)]
        /\ UNCHANGED <<vertices, edges, loaded>>

GetDescendants ==
    \E id \in QIds, max_depth \in DepthArgs, o \in IdOrders :
        LET run == get_descendants_run(vertices, edges, o, id, max_depth)
        IN  /\ AfterWrite
            /\ ret' = [op |-> "get_descendants", id |-> id,
                       max_depth |-> max_depth, o |-> o,
                       out |-> run.descendants, expanded |-> run.expanded]
            /\ UNCHANGED <<vertices, edges, loaded>>

GetAncestorsOf(ids) ==
    \E id \in ids, o \in Orders :
        /\ AfterWrite
        /\ ret' = [op |-> "get_ancestors", id |-> id, o |-> o,
                   out |-> get_ancestors(vertices, edges, o, id)]
        /\ UNCHANGED <<vertices, edges, loaded>>

GetAncestors == GetAncestorsOf(QIds)

FindPath ==
    \E from_id \in QIds, to_id \in QIds, o \in IdOrders :
        LET run == find_path_run(vertices, edges, o, from_id, to_id)
        IN  /\ AfterWrite
            /\ ret' = [op |-> "find_path", from_id |-> from_id,
                       to_id |-> to_id, o |-> o,
                       out |-> run.path, queries |-> run.queries]
            /\ UNCHANGED <<vertices, edges, loaded>>

NextQ ==
    \/ BuildOne
    \/ DeleteAll
    \/ GetChildren
    \/ GetDescendants
    \/ GetAncestors
    \/ FindPath

SpecQ == Init /\ [][NextQ]_vars

----------------------------------------------------------------------------
(* A campus: one project, one site, two buildings of one floor and one     *)
(* room each, and a door between the two rooms. SpecCampus runs demo.py on *)
(* the documents that hold any part of it and asks for ancestors.          *)

RECURSIVE SubSeqs(_)
SubSeqs(s) ==
    IF s = <<>> THEN {<<>>}
    ELSE LET r == SubSeqs(Tail(s))
         IN  r \cup {<<Head(s)>> \o t : t \in r}

Campus ==
    Document(
        <<Item(prj_1, None, None, None)>>,
        <<Item(site_1, None, Some(prj_1), None)>>,
        <<Item(bld_1, None, Some(site_1), None),
          Item(bld_2, None, Some(site_1), None)>>,
        <<Item(fl_1, None, Some(bld_1), None),
          Item(fl_2, None, Some(bld_2), None)>>,
        <<Item(rm_1, None, Some(fl_1), None),
          Item(rm_2, None, Some(fl_2), None)>>,
        <<Item(dr_1, None, Some(rm_1), Some(<<rm_1, rm_2>>))>>,
        <<>>)

CampusIds == {prj_1, site_1, bld_1, bld_2, fl_1, fl_2, rm_1, rm_2, dr_1}

LoadCampus ==
    \E p \in SubSeqs(Campus.project), s \in SubSeqs(Campus.site),
       b \in SubSeqs(Campus.buildings), f \in SubSeqs(Campus.floors),
       r \in SubSeqs(Campus.rooms), d \in SubSeqs(Campus.doors) :
        LoadAndParse(Document(p, s, b, f, r, d, <<>>))

GetAncestorsCampus == GetAncestorsOf(CampusIds)

NextCampus ==
    \/ LoadCampus
    \/ BuildLoaded
    \/ DeleteAll
    \/ GetAncestorsCampus

SpecCampus == Init /\ [][NextCampus]_vars

----------------------------------------------------------------------------
(* The files of SpecDoors: up to MaxRooms rooms and up to MaxDoors items   *)
(* under the key doors, with connects lists that name rooms, an anchor and *)
(* ids that no element has.                                                *)

MaxRooms == 2
MaxDoors == 2

dr_2 == <<"dr_2">>
phantom == <<"phantom">>

PlainRoomItems == {Item(rm_1, None, None, None), Item(rm_2, None, None, None)}

ConnectingDoorItems ==
    {Item(dr_1, None, None, Some(<<rm_1, ghost>>)),
     Item(dr_1, None, None, Some(<<ghost, phantom>>)),
     Item(dr_1, None, None, Some(<<outside, rm_1>>)),
     Item(dr_1, None, Some(ghost), Some(<<rm_1, phantom>>)),
     Item(dr_2, None, None, Some(<<rm_1, rm_2>>)),
     Item(dr_2, None, None, Some(<<phantom>>)),
     Item(dr_2, None, None, Some(<<rm_2, phantom, ghost>>)),
     Item(dr_2, Some("Room"), None, Some(<<ghost>>))}

LoadDoors ==
    \E r \in SeqsUpTo(PlainRoomItems, MaxRooms),
       d \in SeqsUpTo(ConnectingDoorItems, MaxDoors) :
        LoadAndParse(File(<<>>, r, d, <<>>))

NextDoors ==
    \/ LoadDoors
    \/ BuildLoaded
    \/ DeleteAll

SpecDoors == Init /\ [][NextDoors]_vars

----------------------------------------------------------------------------
(* queries.py: the analytics queries. A properties dict is a function from *)
(* its keys; a vertex document written without the field reads as the      *)
(* model's default, the empty dict.                                        *)

EmptyDict == [k \in {} |-> 0]

\* d.get(key, default)
dict_get(d, key, default) == IF key \in DOMAIN d THEN d[key] ELSE default

\* element.get("properties", {})
properties_of(element) == dict_get(element, "properties", EmptyDict)

ZeroStats ==
    [Floor |-> 0, Room |-> 0, Door |-> 0, Window |-> 0, total_area_sqm |-> 0]

\* get_element_statistics: for element in descendants
RECURSIVE count_elements(_, _)
count_elements(stats, descendants) ==
    IF descendants = <<>> THEN stats
    ELSE LET element == Head(descendants)
             element_type == element.type
             s1 == IF element_type \in DOMAIN stats
                   THEN [stats EXCEPT ![element_type] = @ + 1] ELSE stats
             s2 == IF element_type = "Floor"
                   THEN [s1 EXCEPT !.total_area_sqm =
                            @ + dict_get(properties_of(element), "area_sqm", 0)]
                   ELSE s1
         IN  count_elements(s2, Tail(descendants))

get_element_statistics(V, E, o, building_id) ==
    count_elements(ZeroStats, get_descendants(V, E, o, building_id, None))

\* group_rooms that counts every descendant, of whatever type
RECURSIVE group_rooms_any_type(_, _)
group_rooms_any_type(report, descendants) ==
    IF descendants = <<>> THEN report
    ELSE LET element == Head(descendants)
             room_type == dict_get(properties_of(element), "room_type", "Other")
             capacity == dict_get(properties_of(element), "capacity", 0)
             r1 == IF room_type \notin DOMAIN report
                   THEN insert_overwrite(report, room_type,
                            [count |-> 0, total_capacity |-> 0])
                   ELSE report
             r2 == [r1 EXCEPT ![room_type] =
                        [count |-> @.count + 1,
                         total_capacity |-> @.total_capacity + capacity]]
         IN  group_rooms_any_type(r2, Tail(descendants))

\* get_room_capacity_report: for element in descendants
RECURSIVE group_rooms(_, _)
group_rooms(report, descendants) ==
    IF descendants = <<>> THEN report
    ELSE LET element == Head(descendants)
             room_type == dict_get(properties_of(element), "room_type", "Other")
             capacity == dict_get(properties_of(element), "capacity", 0)
             r1 == IF room_type \notin DOMAIN report
                   THEN insert_overwrite(report, room_type,
                            [count |-> 0, total_capacity |-> 0])
                   ELSE report
             r2 == [r1 EXCEPT ![room_type] =
                        [count |-> @.count + 1,
                         total_capacity |-> @.total_capacity + capacity]]
         IN  IF element.type # "Room"
             THEN group_rooms(report, Tail(descendants))
             ELSE group_rooms(r2, Tail(descendants))

get_room_capacity_report(V, E, o, building_id) ==
    group_rooms(EmptyDict, get_descendants(V, E, o, building_id, None))

\* collect_count that counts the distinct values and not the documents
collect_count_one_each(coll, field) ==
    LET values == {coll[k][field] : k \in DOMAIN coll}
    IN  [x \in values |-> 1]

\* COLLECT x = doc[field] WITH COUNT INTO count, the rows merged into a dict
collect_count(coll, field) ==
    LET values == {coll[k][field] : k \in DOMAIN coll}
    IN  [x \in values |->
            Cardinality({k \in DOMAIN coll : coll[k][field] = x})]

get_graph_metadata(V, E) ==
    [total_elements |-> Cardinality(DOMAIN V),
     element_counts |-> collect_count(V, "type"),
     relationships |-> collect_count(E, "relationship")]

----------------------------------------------------------------------------
(* SpecReports: demo.py's delete_all_data and build on lists of elements   *)
(* that carry properties, then the analytics queries.                      *)

stair_1 == <<"stair_1">>
zone_1 == <<"zone_1">>

\* a BuildingElement with its properties
Furnished(id, type, parent_id, connects, properties) ==
    [id |-> id, type |-> type, parent_id |-> parent_id, connects |-> connects,
     properties |-> properties]

\* for each id the elements the list may hold for it, <<>> for none
FurnishedChoices ==
    <<{<<Furnished(bld_1, "Building", None, None, [area_sqm |-> 500])>>},
      {<<>>, <<Furnished(fl_1, "Floor", Some(bld_1), None, EmptyDict)>>,
       <<Furnished(fl_1, "Floor", Some(bld_1), None, [area_sqm |-> 100])>>},
      {<<>>, <<Furnished(fl_2, "Floor", Some(bld_1), None, [area_sqm |-> 150])>>},
      {<<>>, <<Furnished(rm_1, "Room", Some(fl_1), None, EmptyDict)>>,
       <<Furnished(rm_1, "Room", Some(fl_1), None,
            [room_type |-> "Office", capacity |-> 10, area_sqm |-> 30])>>,
       <<Furnished(rm_1, "Room", Some(fl_1), None, [capacity |-> 7])>>},
      {<<>>, <<Furnished(rm_2, "Room", Some(fl_2), None,
            [room_type |-> "Meeting", capacity |-> 4])>>,
       <<Furnished(rm_2, "Room", Some(fl_1), None, [room_type |-> "Office"])>>,
       <<Furnished(rm_2, "Room", Some(fl_1), None,
            [room_type |-> "Office", capacity |-> 5])>>},
      {<<>>, <<Furnished(dr_1, "Door", Some(rm_1), Some(<<rm_1, rm_2>>),
            [capacity |-> 2])>>},
      {<<>>, <<Furnished(wn_1, "Window", Some(rm_1), None, EmptyDict)>>},
      {<<>>, <<Furnished(stair_1, "Stair", Some(fl_1), None,
            [area_sqm |-> 12])>>},
      {<<>>, <<Furnished(zone_1, "total_area_sqm", Some(bld_1), None,
            EmptyDict)>>}>>

ReportIds == {bld_1, fl_1, ghost}

ReportOrders ==
    [ids : {<<bld_1, fl_1, fl_2, rm_1, rm_2, dr_1, wn_1, stair_1, zone_1>>,
            <<zone_1, stair_1, wn_1, dr_1, rm_2, rm_1, fl_2, fl_1, bld_1>>},
     kinds : {KindOrderPartOfFirst}]

\* demo.py: build on the store that delete_all_data left empty
BuildFurnished ==
    /\ vertices = EmptyColl
    /\ \E c1 \in FurnishedChoices[1], c2 \in FurnishedChoices[2],
          c3 \in FurnishedChoices[3], c4 \in FurnishedChoices[4],
          c5 \in FurnishedChoices[5], c6 \in FurnishedChoices[6],
          c7 \in FurnishedChoices[7], c8 \in FurnishedChoices[8],
          c9 \in FurnishedChoices[9] :
            BuildGraph(c1 \o c2 \o c3 \o c4 \o c5 \o c6 \o c7 \o c8 \o c9)

GetElementStatistics ==
    \E id \in ReportIds, o \in ReportOrders :
        /\ AfterWrite
        /\ ret' = [op |-> "get_element_statistics", id |-> id, o |-> o,
                   descendants |-> get_descendants(vertices, edges, o, id, None),
                   out |-> get_element_statistics(vertices, edges, o, id)]
        /\ UNCHANGED <<vertices, edges, loaded>>

GetRoomCapacityReport ==
    \E id \in ReportIds, o \in ReportOrders :
        /\ AfterWrite
        /\ ret' = [op |-> "get_room_capacity_report", id |-> id, o |-> o,
                   descendants |-> get_descendants(vertices, edges, o, id, None),
                   out |-> get_room_capacity_report(vertices, edges, o, id)]
        /\ UNCHANGED <<vertices, edges, loaded>>

GetGraphMetadata ==
    /\ AfterWrite
    /\ ret' = [op |-> "get_graph_metadata",
               out |-> get_graph_metadata(vertices, edges)]
    /\ UNCHANGED <<vertices, edges, loaded>>

NextReports ==
    \/ BuildFurnished
    \/ DeleteAll
    \/ GetElementStatistics
    \/ GetRoomCapacityReport
    \/ GetGraphMetadata

SpecReports == Init /\ [][NextReports]_vars

----------------------------------------------------------------------------
(* SpecCycles: stores with a self-loop and with two rooms that are each    *)
(* other's parent, and the two loops of the traversal engine taken one     *)
(* turn at a time. A call runs to its return before anything else happens. *)

CyclicElements ==
    {Element(rm_1, "Room", Some(rm_2), None),
     Element(rm_2, "Room", Some(rm_1), None),
     Element(rm_2, "Room", Some(rm_2), None),
     Element(wn_1, "Window", Some(rm_1), None),
     Element(wn_1, "Window", Some(rm_2), None)}

CyclicIds == {rm_1, rm_2, wn_1, ghost}

Running == ret.op \in {"get_descendants:loop", "find_path:loop"}

BuildCyclic == ~Running /\ \E e \in CyclicElements : BuildGraph(<<e>>)

DeleteCyclic == ~Running /\ DeleteAll

\* get_descendants is called: the locals are set
CallGetDescendants ==
    \E id \in CyclicIds, max_depth \in DepthArgs, o \in IdOrders :
        /\ AfterWrite
        /\ ret' = [op |-> "get_descendants:loop", id |-> id,
                   max_depth |-> max_depth, o |-> o, st |-> descend_start(id)]
        /\ UNCHANGED <<vertices, edges, loaded>>

\* get_descendants: a turn of the loop, or the return when the stack is empty
DescendStep ==
    /\ ret.op = "get_descendants:loop"
    /\ ret' = IF ret.st.stack = <<>>
              THEN [op |-> "get_descendants", id |-> ret.id,
                    max_depth |-> ret.max_depth, o |-> ret.o,
                    out |-> ret.st.descendants, expanded |-> ret.st.expanded]
              ELSE [ret EXCEPT !.st = descend_step(vertices, edges, ret.o,
                                        ret.id, ret.max_depth, ret.st)]
    /\ UNCHANGED <<vertices, edges, loaded>>

\* find_path is called: the locals are set
CallFindPath ==
    \E from_id \in CyclicIds, to_id \in CyclicIds, o \in IdOrders :
        /\ AfterWrite
        /\ ret' = [op |-> "find_path:loop", from_id |-> from_id,
                   to_id |-> to_id, o |-> o, st |-> search_start(from_id)]
        /\ UNCHANGED <<vertices, edges, loaded>>

\* find_path: a turn of the loop, or one of its two returns
SearchStep ==
    /\ ret.op = "find_path:loop"
    /\ LET Return(path) ==
              [op |-> "find_path", from_id |-> ret.from_id,
               to_id |-> ret.to_id, o |-> ret.o, out |-> path,
               queries |-> ret.st.queries]
       IN  ret' = IF ret.st.queue = <<>> THEN Return(<<>>)
                  ELSE LET path == Head(ret.st.queue)
                       IN  IF path[Len(path)] = ret.to_id
                           THEN Return(found_path(vertices, path))
                           ELSE [ret EXCEPT !.st =
                                    search_step(vertices, edges, ret.o, ret.st)]
    /\ UNCHANGED <<vertices, edges, loaded>>

NextCycles ==
    \/ BuildCyclic
    \/ DeleteCyclic
    \/ CallGetDescendants
    \/ DescendStep
    \/ CallFindPath
    \/ SearchStep

SpecCycles == Init /\ [][NextCycles]_vars

\* a call that has started goes on: the interpreter takes the next turn
SpecCyclesFair ==
    SpecCycles /\ WF_vars(DescendStep) /\ WF_vars(SearchStep)

----------------------------------------------------------------------------
(* Rooms and their openings: elements built one per call, so that a vertex *)
(* is upserted again with another type or parent while the edges of the    *)
(* earlier build stay, and get_room_openings asked after every write.      *)

OpeningElements ==
    {Element(rm_1, "Room", None, None),
     Element(rm_2, "Room", Some(rm_1), None),
     Element(dr_1, "Door", Some(rm_1), None),
     Element(dr_2, "Door", Some(rm_1), None),
     Element(dr_2, "Room", Some(rm_1), None),
     Element(wn_1, "Window", Some(rm_1), None),
     Element(wn_1, "Window", Some(rm_2), None),
     Element(wn_1, "Door", Some(rm_1), None)}

OpeningIds == {rm_1, rm_2, dr_1, ghost}

OpeningOrders ==
    [ids : {<<rm_1, rm_2, dr_1, dr_2, wn_1>>, <<wn_1, dr_2, dr_1, rm_2, rm_1>>},
     kinds : {KindOrderPartOfFirst}]

BuildOpening == \E e \in OpeningElements : BuildGraph(<<e>>)

GetRoomOpenings ==
    \E room_id \in OpeningIds, o \in OpeningOrders :
        /\ AfterWrite
        /\ ret' = [op |-> "get_room_openings", id |-> room_id, o |-> o,
                   out |-> get_room_openings(vertices, edges, o, room_id)]
        /\ UNCHANGED <<vertices, edges, loaded>>

NextOpenings ==
    \/ BuildOpening
    \/ DeleteAll
    \/ GetRoomOpenings

SpecOpenings == Init /\ [][NextOpenings]_vars

----------------------------------------------------------------------------
(* SpecLists: build_graph_from_data called with lists of elements in any   *)
(* order (tests/test_graph_service.py builds lists directly), first on the *)
(* empty store and then once more on the store the first build left.       *)

MaxListLen == 4

corridor == <<"corridor">>

\* the elements the lists are made of: two rooms, a door between them, a
\* second door whose connects is the same pair, one room twice, one entry,
\* three entries, or a room and an anchor, a room whose id is the anchor
\* "corridor", and a window, which also comes under the other room and with
\* a connects of its own
ListElements ==
    {Element(rm_1, "Room", None, None),
     Element(rm_2, "Room", Some(rm_1), None),
     Element(dr_1, "Door", Some(rm_1), Some(<<rm_1, rm_2>>)),
     Element(dr_2, "Door", None, Some(<<rm_2, rm_1>>)),
     Element(dr_2, "Door", None, Some(<<rm_1, rm_1>>)),
     Element(dr_2, "Door", None, Some(<<rm_1>>)),
     Element(dr_2, "Door", None, Some(<<rm_1, rm_2, rm_1>>)),
     Element(dr_2, "Door", None, Some(<<rm_1, outside>>)),
     Element(dr_2, "Door", None, Some(<<rm_1, corridor>>)),
     Element(corridor, "Room", None, None),
     Element(wn_1, "Window", Some(rm_1), None),
     Element(wn_1, "Window", Some(rm_2), Some(<<rm_1, rm_2>>))}

\* the lists of n elements with different ids, in every order
RECURSIVE ListsOfLen(_)
ListsOfLen(n) ==
    IF n = 0 THEN {<<>>}
    ELSE UNION {{Append(els, x) :
                    x \in {y \in ListElements :
                            \A i \in 1..(n - 1) : els[i].id # y.id}} :
                els \in ListsOfLen(n - 1)}

\* the lists of at most n elements with different ids
ListsUpTo(n) == UNION {ListsOfLen(k) : k \in 0..n}

FirstLists == ListsUpTo(MaxListLen)
\* a rebuild takes one element, as the builds of SpecQ do
RebuildLists == ListsOfLen(1)

BuildFirst ==
    /\ vertices = EmptyColl
    /\ \E elements \in FirstLists : BuildGraph(elements)

\* a second build without a reset in between
BuildNext ==
    /\ ret.op = "build_graph_from_data"
    /\ DOMAIN ret.before.V = {}
    /\ \E elements \in RebuildLists : BuildGraph(elements)

NextLists == BuildFirst \/ BuildNext \/ DeleteAll

SpecLists == Init /\ [][NextLists]_vars

----------------------------------------------------------------------------
(* What the claims are stated in                                           *)

\* the ids of a list of elements
IdsOf(elements) == {elements[i].id : i \in 1..Len(elements)}

\* the edge upserts of the given kinds among the writes of a build
EdgeUpserts(calls, kinds) ==
    {i \in 1..Len(calls) :
        calls[i].call = "upsert_edge" /\ calls[i].relationship \in kinds}

\* the edges of a collection as (from, kind, to)
Triples(E) == {<<E[k]._from, E[k].relationship, E[k]._to>> : k \in DOMAIN E}

\* the last operation was a build of the validated list on an empty store
BuiltOnEmpty ==
    /\ ret.op = "build_graph_from_data"
    /\ DOMAIN ret.before.V = {} /\ DOMAIN ret.before.E = {}
    /\ loaded.status = "ok" /\ ret.elements = loaded.elements

----------------------------------------------------------------------------
(* C1: a build of a validated list on an empty store issues two PART_OF +  *)
(* CONTAINS upserts per element whose parent_id names an element of the    *)
(* list, one HAS_OPENING upsert per Door or Window whose parent_id names   *)
(* an element of the list, two CONNECTS_TO upserts per Door whose connects *)
(* has exactly two entries that both name elements of the list, and        *)
(* returns their sum as "edges".                                           *)

WithParent(els) ==
    {i \in 1..Len(els) :
        els[i].parent_id # None /\ els[i].parent_id[1] \in IdsOf(els)}

OpeningsWithParent(els) ==
    {i \in WithParent(els) : els[i].type \in {"Door", "Window"}}

DoorsWithTwoRooms(els) ==
    {i \in 1..Len(els) :
        /\ els[i].type = "Door"
        /\ els[i].connects # None
        /\ Len(els[i].connects[1]) = 2
        /\ els[i].connects[1][1] \in IdsOf(els)
        /\ els[i].connects[1][2] \in IdsOf(els)}

C1_EdgeUpsertCounts ==
    BuiltOnEmpty =>
        LET els == ret.elements
            nPart == Cardinality(EdgeUpserts(ret.calls, {"PART_OF", "CONTAINS"}))
            nOpen == Cardinality(EdgeUpserts(ret.calls, {"HAS_OPENING"}))
            nConn == Cardinality(EdgeUpserts(ret.calls, {"CONNECTS_TO"}))
        IN  /\ nPart = 2 * Cardinality(WithParent(els))
            /\ nOpen = Cardinality(OpeningsWithParent(els))
            /\ nConn = 2 * Cardinality(DoorsWithTwoRooms(els))
            /\ ret.out.edges = nPart + nOpen + nConn

\* a build with edges of every kind, and a reference that names no element
C1_Witness ==
    /\ BuiltOnEmpty
    /\ EdgeUpserts(ret.calls, {"PART_OF", "CONTAINS"}) # {}
    /\ EdgeUpserts(ret.calls, {"HAS_OPENING"}) # {}
    /\ EdgeUpserts(ret.calls, {"CONNECTS_TO"}) # {}
    /\ \E i \in 1..Len(ret.elements) :
            ret.elements[i].parent_id = Some(outside)

----------------------------------------------------------------------------
(* The graph the store holds, read off the edge documents                  *)

\* the keys y with an edge of one of the kinds from x to y
Succ(E, x, kinds) ==
    {KeyOf(E[k]._to) : k \in {j \in DOMAIN E :
        E[j]._from = Handle(x) /\ E[j].relationship \in kinds}}

\* the keys joined to x by an edge of any kind, in either direction
Adjacent(E, x) ==
    Succ(E, x, Kinds)
        \cup {KeyOf(E[k]._from) : k \in {j \in DOMAIN E : E[j]._to = Handle(x)}}

\* the keys reached from the set S in at most n steps of Step
RECURSIVE Within(_, _, _, _)
Within(E, S, n, kinds) ==
    IF n = 0 THEN S
    ELSE LET B == Within(E, S, n - 1, kinds)
         IN  B \cup UNION {IF kinds = {} THEN Adjacent(E, x)
                           ELSE Succ(E, x, kinds) : x \in B}

\* at most n undirected hops from x
Ball(E, x, n) == Within(E, {x}, n, {})

\* the least number of undirected hops from x to y, y within reach
Distance(E, x, y) ==
    CHOOSE n \in 0..Cardinality(DOMAIN E) :
        /\ y \in Ball(E, x, n)
        /\ \A m \in 0..(n - 1) : y \notin Ball(E, x, m)

Connected(E, x, y) == y \in Ball(E, x, Cardinality(DOMAIN E))

\* reached from x by 1 to n outbound PART_OF edges
PartOfWithin(E, x, n) ==
    IF n = 0 THEN {} ELSE Within(E, Succ(E, x, {"PART_OF"}), n - 1, {"PART_OF"})

\* the least number of PART_OF edges from x to y, y within reach
PartOfHops(E, x, y) ==
    CHOOSE n \in 1..(Cardinality(DOMAIN E) + 1) :
        /\ y \in PartOfWithin(E, x, n)
        /\ \A m \in 1..(n - 1) : y \notin PartOfWithin(E, x, m)

NoRepeat(seq) == \A i, j \in 1..Len(seq) : i # j => seq[i] # seq[j]

----------------------------------------------------------------------------
(* C2: get_descendants(id, max_depth=0) returns the elements of            *)
(* get_children(id). The code starts at depth 0 and puts the children at   *)
(* depth 1, so max_depth=0 returns nothing; it is max_depth=1 that returns *)
(* the children, without id itself when id is its own child.               *)

\* the claim as written
C2_DepthZeroIsChildren ==
    (ret.op = "get_descendants" /\ ret.max_depth = Some(0)) =>
        SeqToSet(ret.out)
            = SeqToSet(get_children(vertices, edges, ret.o, ret.id))

\* the claim as amended
C2_DepthOneIsChildren ==
    ret.op = "get_descendants" =>
        LET children == get_children(vertices, edges, ret.o, ret.id)
        IN  /\ ret.max_depth = Some(0) => ret.out = <<>>
            /\ ret.max_depth = Some(1) =>
                    /\ SeqToSet(ret.out)
                            = {c \in SeqToSet(children) : c.id # ret.id}
                    /\ NoRepeat(ret.out)

\* max_depth=1 on a vertex that contains itself and another vertex
C2_Witness ==
    /\ ret.op = "get_descendants" /\ ret.max_depth = Some(1)
    /\ Len(ret.out) = 1
    /\ Len(get_children(vertices, edges, ret.o, ret.id)) = 2
    /\ ret.id \in Succ(edges, ret.id, {"CONTAINS"})

----------------------------------------------------------------------------
(* C3: the result of get_ancestors(id) never holds id and has at most 5    *)
(* entries.                                                                *)

C3_NoSelfAtMostFive ==
    ret.op = "get_ancestors" =>
        /\ \A i \in 1..Len(ret.out) : ret.out[i].id # ret.id
        /\ Len(ret.out) <= 5

----------------------------------------------------------------------------
(* C4: get_ancestors(id) returns exactly the vertices reached from id by 1 *)
(* to 5 outbound PART_OF edges (id itself apart), each once, nearest       *)
(* first; a vertex reached only through an edge of another kind is not     *)
(* returned.                                                               *)

C4_AncestorsArePartOfPaths ==
    ret.op = "get_ancestors" =>
        LET keys == KeysOf(ret.out)
        IN  /\ SeqToSet(keys) = PartOfWithin(edges, ret.id, 5) \ {ret.id}
            /\ NoRepeat(keys)
            /\ \A i, j \in 1..Len(keys) :
                    i < j => PartOfHops(edges, ret.id, keys[i])
                                <= PartOfHops(edges, ret.id, keys[j])

----------------------------------------------------------------------------
(* C5: when to_id is joined to from_id by stored edges of any kind in      *)
(* either direction, find_path returns a sequence from from_id to to_id,   *)
(* consecutive elements joined by a stored edge, with the least possible   *)
(* number of hops.                                                         *)

IsPath(E, keys, from_id, to_id) ==
    /\ Len(keys) >= 1
    /\ keys[1] = from_id
    /\ keys[Len(keys)] = to_id
    /\ \A i \in 1..(Len(keys) - 1) : keys[i + 1] \in Adjacent(E, keys[i])

C5_ShortestPath ==
    (/\ ret.op = "find_path"
     /\ ret.from_id \in DOMAIN vertices
     /\ Connected(edges, ret.from_id, ret.to_id)) =>
        /\ \A i \in 1..Len(ret.out) : ret.out[i] # None
        /\ LET keys == [i \in 1..Len(ret.out) |-> ret.out[i][1].id]
           IN  /\ IsPath(edges, keys, ret.from_id, ret.to_id)
               /\ Len(keys) - 1 = Distance(edges, ret.from_id, ret.to_id)

\* two hops through the hierarchy where the rooms are not connected
C5_Witness ==
    /\ ret.op = "find_path"
    /\ Len(ret.out) = 3
    /\ Distance(edges, ret.from_id, ret.to_id) = 2
    /\ \E k \in DOMAIN edges : edges[k].relationship = "CONNECTS_TO"

----------------------------------------------------------------------------
(* C6: find_path(x, x) of an existing x returns the path of x alone and    *)
(* sends the store no neighbour query.                                     *)

C6_SameNode ==
    (/\ ret.op = "find_path"
     /\ ret.from_id = ret.to_id
     /\ ret.from_id \in DOMAIN vertices) =>
        /\ ret.out = <<Some(vertices[ret.from_id])>>
        /\ ret.queries = 0

\* x has neighbours it could have asked for
C6_Witness ==
    /\ ret.op = "find_path"
    /\ ret.from_id = ret.to_id
    /\ ret.from_id \in DOMAIN vertices
    /\ Adjacent(edges, ret.from_id) # {}
    /\ Len(ret.out) = 1

----------------------------------------------------------------------------
(* C7: find_path(A, B) returns a path if and only if find_path(B, A) does. *)

C7_SymmetricExistence ==
    ret.op = "find_path" =>
        \A o \in IdOrders :
            (ret.out # <<>>)
                <=> (find_path(vertices, edges, o, ret.to_id, ret.from_id) # <<>>)

\* a path of two hops or more between two different vertices
C7_Witness ==
    /\ ret.op = "find_path"
    /\ ret.from_id # ret.to_id
    /\ Len(ret.out) >= 3
    /\ find_path(vertices, edges, ret.o, ret.to_id, ret.from_id) # <<>>

----------------------------------------------------------------------------
(* C8: when to_id is not joined to from_id (and differs from it),          *)
(* find_path returns the empty list, also when one of them is no vertex.   *)

C8_NoPathIsEmpty ==
    (/\ ret.op = "find_path"
     /\ ret.from_id # ret.to_id
     /\ ~Connected(edges, ret.from_id, ret.to_id)) =>
        ret.out = <<>>

\* from a vertex that has neighbours to an id that is no vertex
C8_Witness ==
    /\ ret.op = "find_path"
    /\ ret.to_id \notin DOMAIN vertices
    /\ Adjacent(edges, ret.from_id) # {}
    /\ ret.queries >= 2
    /\ ret.out = <<>>

----------------------------------------------------------------------------
(* C9: a second build in a row of the same validated list leaves the same  *)
(* vertices and the same edges (from, kind, to) as the first: no edge is   *)
(* duplicated.                                                             *)

C9_RebuildIdempotent ==
    (ret.op = "build_graph_from_data" /\ ret.nth >= 2) =>
        /\ vertices = ret.before.V
        /\ Triples(edges) = Triples(ret.before.E)
        /\ Cardinality(DOMAIN edges) = Cardinality(Triples(edges))

C9_Witness ==
    /\ ret.op = "build_graph_from_data" /\ ret.nth = 2
    /\ \E k \in DOMAIN edges : edges[k].relationship = "CONNECTS_TO"
    /\ \E k \in DOMAIN edges : edges[k].relationship = "HAS_OPENING"

----------------------------------------------------------------------------
(* C10: load_and_parse_data returns the whole list of parsed elements      *)
(* exactly when the ids are pairwise distinct, every parent_id that is set *)
(* is an id of the input or "outside" or "corridor", and so is every entry *)
(* of every Door's connects; otherwise it raises and returns no element;   *)
(* and it leaves the store as it was.                                      *)

Anchors == {<<"outside">>, <<"corridor">>}

ValidInput(els) ==
    /\ \A i, j \in 1..Len(els) : i # j => els[i].id # els[j].id
    /\ \A i \in 1..Len(els) :
            els[i].parent_id # None =>
                els[i].parent_id[1] \in IdsOf(els) \cup Anchors
    /\ \A i \in 1..Len(els) :
            (els[i].type = "Door" /\ els[i].connects # None) =>
                \A j \in 1..Len(els[i].connects[1]) :
                    els[i].connects[1][j] \in IdsOf(els) \cup Anchors

LoadOutcome ==
    ret.op = "load_and_parse_data" =>
        LET els == parse_entities(ret.data)
        IN  /\ loaded.status \in {"ok", "error"}
            /\ (loaded.status = "ok") <=> ValidInput(els)
            /\ loaded.status = "ok" => loaded.elements = els
            /\ loaded.status = "error" =>
                    (loaded.elements = <<>> /\ loaded.error # <<>>)

C10_AllOrNothing ==
    /\ []LoadOutcome
    /\ [][ret'.op = "load_and_parse_data" =>
            (vertices' = vertices /\ edges' = edges)]_vars

\* a load that failed on a Door's connects although ids and parents are fine
C10_Witness ==
    /\ ret.op = "load_and_parse_data"
    /\ loaded.status = "error"
    /\ loaded.error[1] = "Door connects to non-existent element"
    /\ Len(parse_entities(ret.data)) = 3

----------------------------------------------------------------------------
(* C11: when two elements of the input have the same id, the load fails    *)
(* with a duplicate-id error that names the first duplicated id detected.  *)

HasDuplicate(els) == \E i, j \in 1..Len(els) : i # j /\ els[i].id = els[j].id

\* the id of the first element that repeats the id of an earlier one
FirstDuplicate(els) ==
    LET j == CHOOSE k \in 1..Len(els) :
                /\ \E i \in 1..(k - 1) : els[i].id = els[k].id
                /\ \A m \in 1..(k - 1) :
                        \A i \in 1..(m - 1) : els[i].id # els[m].id
    IN  els[j].id

C11_DuplicateNamesId ==
    (ret.op = "load_and_parse_data" /\ HasDuplicate(parse_entities(ret.data))) =>
        /\ loaded.status = "error"
        /\ loaded.error[1] = "Duplicate element IDs detected in input data."
        /\ loaded.error[2] = FirstDuplicate(parse_entities(ret.data))

\* the half of C11 the loader keeps: a duplicate id fails the load
C11_DuplicateFails ==
    (ret.op = "load_and_parse_data" /\ HasDuplicate(parse_entities(ret.data))) =>
        /\ loaded.status = "error"
        /\ loaded.error[1] = "Duplicate element IDs detected in input data."

----------------------------------------------------------------------------
(* C12: when ids are unique and parents valid and the connects of a Door   *)
(* holds an id that is neither an element nor an external anchor, the load *)
(* fails with the error that names the first such door in input order and  *)
(* its first such entry.                                                   *)

UniqueIds(els) == ~HasDuplicate(els)

ParentsValid(els) ==
    \A i \in 1..Len(els) :
        els[i].parent_id # None =>
            els[i].parent_id[1] \in IdsOf(els) \cup Anchors

\* the positions (door, entry) of the connects entries that name nothing
Dangling(els) ==
    {p \in (1..Len(els)) \X (1..3) :
        /\ els[p[1]].type = "Door"
        /\ els[p[1]].connects # None
        /\ p[2] <= Len(els[p[1]].connects[1])
        /\ els[p[1]].connects[1][p[2]] \notin IdsOf(els) \cup Anchors}

\* the first of them: first door, and its first entry
FirstDangling(els) ==
    CHOOSE p \in Dangling(els) :
        \A q \in Dangling(els) :
            p[1] < q[1] \/ (p[1] = q[1] /\ p[2] <= q[2])

C12_DanglingNamesDoorAndTarget ==
    LET els == parse_entities(ret.data)
    IN  (/\ ret.op = "load_and_parse_data"
         /\ UniqueIds(els) /\ ParentsValid(els)
         /\ Dangling(els) # {}) =>
            LET p == FirstDangling(els)
            IN  /\ loaded.status = "error"
                /\ loaded.elements = <<>>
                /\ loaded.error = <<"Door connects to non-existent element",
                                    els[p[1]].id, els[p[1]].connects[1][p[2]]>>

\* two doors with entries that name nothing, the first with two of them
C12_Witness ==
    LET els == parse_entities(ret.data)
    IN  /\ ret.op = "load_and_parse_data"
        /\ UniqueIds(els) /\ ParentsValid(els)
        /\ \E p, q, r \in Dangling(els) :
                p[1] # q[1] /\ r[1] = FirstDangling(els)[1] /\ r # FirstDangling(els)
        /\ loaded.status = "error"

----------------------------------------------------------------------------
(* C13: get_element_statistics returns, for Floor, Room, Door and Window,  *)
(* the number of descendants of the type, and as total_area_sqm the sum of *)
(* area_sqm over the Floor descendants (0 where missing); a descendant of  *)
(* any other type changes nothing.                                         *)

CountOfType(ds, t) == Cardinality({i \in 1..Len(ds) : ds[i].type = t})

RECURSIVE FloorArea(_)
FloorArea(ds) ==
    IF ds = <<>> THEN 0
    ELSE (IF Head(ds).type = "Floor" /\ "area_sqm" \in DOMAIN Head(ds).properties
          THEN Head(ds).properties.area_sqm ELSE 0)
            + FloorArea(Tail(ds))

C13_StatisticsCountTypes ==
    ret.op = "get_element_statistics" =>
        /\ \A t \in {"Floor", "Room", "Door", "Window"} :
                ret.out[t] = CountOfType(ret.descendants, t)
        /\ ret.out.total_area_sqm = FloorArea(ret.descendants)

\* what holds of C13: the claim where no descendant has a type that is the
\* name of a field of the result other than the four counted types
C13_HoldsForOtherTypeNames ==
    (/\ ret.op = "get_element_statistics"
     /\ \A i \in 1..Len(ret.descendants) :
            ret.descendants[i].type # "total_area_sqm") =>
        /\ \A t \in {"Floor", "Room", "Door", "Window"} :
                ret.out[t] = CountOfType(ret.descendants, t)
        /\ ret.out.total_area_sqm = FloorArea(ret.descendants)

----------------------------------------------------------------------------
(* C14: get_room_capacity_report has one entry per room_type among the     *)
(* Room descendants ("Other" where a room has none), its count the number  *)
(* of those rooms and its total_capacity the sum of their capacity (0      *)
(* where missing); other descendants add nothing, no rooms give the empty  *)
(* mapping.                                                                *)

RoomTypeOf(d) ==
    IF "room_type" \in DOMAIN d.properties THEN d.properties.room_type
    ELSE "Other"

CapacityOf(d) ==
    IF "capacity" \in DOMAIN d.properties THEN d.properties.capacity ELSE 0

IsRoomOfType(d, t) == d.type = "Room" /\ RoomTypeOf(d) = t

RECURSIVE CapacityOfType(_, _)
CapacityOfType(ds, t) ==
    IF ds = <<>> THEN 0
    ELSE (IF IsRoomOfType(Head(ds), t) THEN CapacityOf(Head(ds)) ELSE 0)
            + CapacityOfType(Tail(ds), t)

C14_CapacityByRoomType ==
    ret.op = "get_room_capacity_report" =>
        LET ds == ret.descendants
            rooms == {i \in 1..Len(ds) : ds[i].type = "Room"}
        IN  /\ DOMAIN ret.out = {RoomTypeOf(ds[i]) : i \in rooms}
            /\ \A t \in DOMAIN ret.out :
                    /\ ret.out[t].count
                            = Cardinality({i \in rooms : RoomTypeOf(ds[i]) = t})
                    /\ ret.out[t].total_capacity = CapacityOfType(ds, t)
            /\ rooms = {} => ret.out = EmptyDict

\* a room of a type without capacity, a room with capacity without
\* room_type, and a door that has a capacity of its own
C14_Witness ==
    /\ ret.op = "get_room_capacity_report"
    /\ DOMAIN ret.out = {"Office", "Other"}
    /\ ret.out["Office"] = [count |-> 1, total_capacity |-> 0]
    /\ ret.out["Other"] = [count |-> 1, total_capacity |-> 7]
    /\ \E i \in 1..Len(ret.descendants) :
            ret.descendants[i].type = "Door" /\ CapacityOf(ret.descendants[i]) > 0

----------------------------------------------------------------------------
(* C15: on a store with no vertex and no edge get_graph_metadata returns   *)
(* total_elements 0 and empty element_counts and relationships, and        *)
(* get_element_statistics returns zero in every field; on any store        *)
(* get_graph_metadata reports the vertices per type and the edges per kind *)
(* as the store holds them.                                                *)

StoreIsEmpty == DOMAIN vertices = {} /\ DOMAIN edges = {}

VerticesOfType(t) == {k \in DOMAIN vertices : vertices[k].type = t}
EdgesOfKind(r) == {k \in DOMAIN edges : edges[k].relationship = r}

C15_EmptyAndExactMetadata ==
    /\ ret.op = "get_graph_metadata" =>
        /\ ret.out.total_elements = Cardinality(DOMAIN vertices)
        /\ DOMAIN ret.out.element_counts
                = {vertices[k].type : k \in DOMAIN vertices}
        /\ \A t \in DOMAIN ret.out.element_counts :
                ret.out.element_counts[t] = Cardinality(VerticesOfType(t))
        /\ DOMAIN ret.out.relationships
                = {edges[k].relationship : k \in DOMAIN edges}
        /\ \A r \in DOMAIN ret.out.relationships :
                ret.out.relationships[r] = Cardinality(EdgesOfKind(r))
        /\ StoreIsEmpty =>
                ret.out = [total_elements |-> 0, element_counts |-> EmptyDict,
                           relationships |-> EmptyDict]
    /\ (ret.op = "get_element_statistics" /\ StoreIsEmpty) =>
            ret.out = [Floor |-> 0, Room |-> 0, Door |-> 0, Window |-> 0,
                       total_area_sqm |-> 0]

\* the metadata of a store with two floors and connected rooms
C15_Witness ==
    /\ ret.op = "get_graph_metadata"
    /\ "Floor" \in DOMAIN ret.out.element_counts
    /\ ret.out.element_counts["Floor"] = 2
    /\ "CONNECTS_TO" \in DOMAIN ret.out.relationships
    /\ ret.out.relationships["CONNECTS_TO"] = 2

\* the metadata of the store that delete_all_data left empty
C15_WitnessEmpty ==
    /\ ret.op = "get_graph_metadata"
    /\ StoreIsEmpty
    /\ ret.out.total_elements = 0

----------------------------------------------------------------------------
(* C16: whatever the store (CONTAINS cycles and self-loops included) and   *)
(* whatever max_depth, the result of get_descendants(id) holds neither id  *)
(* nor any vertex twice, and no vertex has its children asked for twice.   *)

C16_NoStartNoRepeat ==
    /\ ret.op = "get_descendants" =>
        /\ \A i \in 1..Len(ret.out) : ret.out[i].id # ret.id
        /\ NoRepeat(KeysOf(ret.out))
        /\ NoRepeat(ret.expanded)
    /\ ret.op = "get_descendants:loop" =>
        /\ NoRepeat(KeysOf(ret.st.descendants))
        /\ NoRepeat(ret.st.expanded)

\* the start vertex lies on a CONTAINS cycle with another vertex
C16_Witness ==
    /\ ret.op = "get_descendants"
    /\ ret.id \in Within(edges, Succ(edges, ret.id, {"CONTAINS"}),
                    Cardinality(DOMAIN edges), {"CONTAINS"})
    /\ ret.id \notin Succ(edges, ret.id, {"CONTAINS"})
    /\ Len(ret.expanded) >= 2
    /\ Len(ret.out) >= 1

----------------------------------------------------------------------------
(* C17: with no max_depth, get_descendants(id) returns exactly the         *)
(* vertices other than id that a path of one or more outbound CONTAINS     *)
(* edges reaches from id.                                                  *)

ContainsReach(E, id) ==
    Within(E, Succ(E, id, {"CONTAINS"}), Cardinality(DOMAIN E), {"CONTAINS"})

C17_AllContainsReachable ==
    (ret.op = "get_descendants" /\ ret.max_depth = None) =>
        SeqToSet(KeysOf(ret.out))
            = (ContainsReach(edges, ret.id) \ {ret.id}) \cap DOMAIN vertices

\* a vertex two CONTAINS edges away is returned
C17_Witness ==
    /\ ret.op = "get_descendants" /\ ret.max_depth = None
    /\ \E i \in 1..Len(ret.out) :
            ret.out[i].id \notin Succ(edges, ret.id, {"CONTAINS"})

----------------------------------------------------------------------------
(* C18: get_descendants and find_path terminate on every store, stores     *)
(* with cycles and self-loops included: a call that has entered its loop   *)
(* returns.                                                                *)

C18_LoopsReturn ==
    /\ (ret.op = "get_descendants:loop") ~> (ret.op = "get_descendants")
    /\ (ret.op = "find_path:loop") ~> (ret.op = "find_path")

\* a call of find_path that went round a cycle of two rooms and found nothing
C18_Witness ==
    /\ ret.op = "find_path"
    /\ ret.out = <<>>
    /\ ret.queries >= 2
    /\ ret.from_id \in ContainsReach(edges, ret.from_id)

----------------------------------------------------------------------------
(* C19: get_room_openings(id) returns the lists "doors" and "windows":     *)
(* doors holds exactly the outbound HAS_OPENING neighbours of id of type   *)
(* Door, windows those of type Window, each once and in the order of the   *)
(* store; a neighbour of another type is in neither list; a room with no   *)
(* openings gives two empty lists.                                         *)

\* the vertices an outbound HAS_OPENING edge of id leads to
Openings(id) ==
    {k \in DOMAIN vertices :
        \E x \in DOMAIN edges :
            /\ edges[x]._from = Handle(id)
            /\ edges[x]._to = Handle(k)
            /\ edges[x].relationship = "HAS_OPENING"}

\* list holds the documents of the openings of that type, each once, in the
\* scan order o
ListsOpeningsOfType(list, id, type, o) ==
    /\ SeqToSet(KeysOf(list)) = {k \in Openings(id) : vertices[k].type = type}
    /\ \A i \in 1..Len(list) : list[i] = vertices[list[i].id]
    /\ \A i, j \in 1..Len(list) :
            i < j => Rank(o.ids, list[i].id) < Rank(o.ids, list[j].id)

C19_OpeningsByType ==
    ret.op = "get_room_openings" =>
        /\ DOMAIN ret.out = {"doors", "windows"}
        /\ ListsOpeningsOfType(ret.out.doors, ret.id, "Door", ret.o)
        /\ ListsOpeningsOfType(ret.out.windows, ret.id, "Window", ret.o)
        /\ Openings(ret.id) = {} =>
                ret.out = [doors |-> <<>>, windows |-> <<>>]

\* a room asked with a door, a window and an opening retyped to Room
C19_Witness ==
    /\ ret.op = "get_room_openings"
    /\ Len(ret.out.doors) >= 1
    /\ Len(ret.out.windows) >= 1
    /\ \E k \in Openings(ret.id) : vertices[k].type \notin {"Door", "Window"}

\* two doors come in the order of the store
C19_WitnessOrder ==
    /\ ret.op = "get_room_openings"
    /\ Len(ret.out.doors) >= 2

\* a room with no openings
C19_WitnessNone ==
    /\ ret.op = "get_room_openings"
    /\ ret.id \in DOMAIN vertices
    /\ Openings(ret.id) = {}

----------------------------------------------------------------------------
(* C20: when the parent_id of an element, or a target of a Door's connects, *)
(* is not a vertex of the store, build_graph_from_data still upserts the    *)
(* vertex of the element, creates no edge for that reference, and returns   *)
(* its counts.                                                              *)

\* the ids an element refers to
ParentRefs(el) == IF el.parent_id = None THEN {} ELSE {el.parent_id[1]}
ConnectsRefs(el) ==
    IF el.type = "Door" /\ el.connects # None
    THEN SeqToSet(el.connects[1]) ELSE {}

\* the references of an element that name no vertex of the store
Unresolved(V, refs) == {x \in refs : x \notin DOMAIN V}

\* no write of the build and no new edge of the store ends in x
NoEdgeCreatedAt(x) ==
    /\ \A i \in 1..Len(ret.calls) :
            ret.calls[i].call = "upsert_edge" =>
                (ret.calls[i].from # x /\ ret.calls[i].to # x)
    /\ \A k \in DOMAIN edges :
            (edges[k]._from = Handle(x) \/ edges[k]._to = Handle(x)) =>
                (k \in DOMAIN ret.before.E /\ ret.before.E[k] = edges[k])

C20_UnresolvedSkipped ==
    ret.op = "build_graph_from_data" =>
        /\ ret.out.vertices = Len(ret.elements)
        /\ ret.out.edges = Cardinality(EdgeUpserts(ret.calls,
                {"PART_OF", "CONTAINS", "HAS_OPENING", "CONNECTS_TO"}))
        /\ \A i \in 1..Len(ret.elements) :
            LET el == ret.elements[i]
            IN  /\ el.id \in DOMAIN vertices
                /\ \E c \in 1..Len(ret.calls) :
                        ret.calls[c] = VertexCall(el)
                /\ \A x \in Unresolved(vertices, ParentRefs(el)) :
                        NoEdgeCreatedAt(x)
                /\ \A x \in Unresolved(vertices, ConnectsRefs(el)) :
                        NoEdgeCreatedAt(x)
                /\ Unresolved(vertices, ConnectsRefs(el)) # {} =>
                        \A c \in EdgeUpserts(ret.calls, {"CONNECTS_TO"}) :
                            ret.calls[c].properties # <<"via_door", el.id>>

\* a build with a room under a parent that is no vertex and a door between a
\* room and a target that is no vertex, that still created edges
C20_Witness ==
    /\ ret.op = "build_graph_from_data"
    /\ \E i \in 1..Len(ret.elements) :
            /\ ret.elements[i].type = "Room"
            /\ Unresolved(vertices, ParentRefs(ret.elements[i])) # {}
    /\ \E i \in 1..Len(ret.elements) :
            /\ ret.elements[i].connects # None
            /\ Len(ret.elements[i].connects[1]) = 2
            /\ Cardinality(Unresolved(vertices, ConnectsRefs(ret.elements[i]))) = 1
    /\ ret.out.edges >= 3

----------------------------------------------------------------------------
(* C21: after delete_all_data the store holds no vertex and no edge,       *)
(* whatever builds came before, so that every traversal returns an empty   *)
(* result and get_graph_metadata reports total_elements = 0.               *)

\* the traversals that start from one id all return nothing for it
TraversalsFromAreEmpty(id, o) ==
    /\ get_children(vertices, edges, o, id) = <<>>
    /\ get_connected_rooms(vertices, edges, o, id) = <<>>
    /\ get_ancestors(vertices, edges, o, id) = <<>>
    /\ get_room_openings(vertices, edges, o, id)
            = [doors |-> <<>>, windows |-> <<>>]
    /\ \A max_depth \in DepthArgs :
            get_descendants(vertices, edges, o, id, max_depth) = <<>>

StoreIsCleared ==
    /\ vertices = EmptyColl
    /\ edges = EmptyColl
    /\ get_graph_metadata(vertices, edges).total_elements = 0
    /\ \A id \in QIds, o \in IdOrders : TraversalsFromAreEmpty(id, o)

C21_AllEmptyAfterDelete ==
    ret.op = "delete_all_data" =>
        /\ StoreIsCleared
        /\ \A from_id \in QIds, to_id \in QIds, o \in IdOrders :
                find_path(vertices, edges, o, from_id, to_id) = <<>>

\* what holds: find_path between two different ids is empty, and find_path
\* from an id to itself is the one-entry list [None]
C21_EmptyButSameNodePath ==
    ret.op = "delete_all_data" =>
        /\ StoreIsCleared
        /\ \A from_id \in QIds, to_id \in QIds, o \in IdOrders :
                find_path(vertices, edges, o, from_id, to_id)
                    = IF from_id = to_id THEN <<None>> ELSE <<>>

\* find_path from an id to itself asked of the empty store
C21_Witness ==
    /\ ret.op = "find_path"
    /\ vertices = EmptyColl
    /\ ret.from_id = ret.to_id
    /\ ret.out = <<None>>

----------------------------------------------------------------------------
(* C22: with no max_depth, get_descendants emits the vertices in the       *)
(* pre-order of a depth-first traversal that takes the children of each    *)
(* vertex in the reverse of the order get_children returns them; the       *)
(* sequence is a function of the store, the start and the child orders.    *)

Reverse(seq) == [i \in 1..Len(seq) |-> seq[Len(seq) + 1 - i]]

\* the recursive depth-first traversal: seen holds the vertices entered so
\* far, in the order they were entered
RECURSIVE PreOrder(_, _, _), PreOrderEach(_, _, _)
PreOrder(o, id, seen) ==
    IF id \in SeqToSet(seen) THEN seen
    ELSE PreOrderEach(o, Reverse(KeysOf(get_children(vertices, edges, o, id))),
                      Append(seen, id))
PreOrderEach(o, ids, seen) ==
    IF ids = <<>> THEN seen
    ELSE PreOrderEach(o, Tail(ids), PreOrder(o, Head(ids), seen))

C22_ReversePreOrder ==
    (ret.op = "get_descendants" /\ ret.max_depth = None) =>
        KeysOf(ret.out) = Tail(PreOrder(ret.o, ret.id, <<>>))

\* the floor's children come back as rm_2, rm_1; rm_1 and its door are
\* emitted before rm_2
C22_Witness ==
    /\ ret.op = "get_descendants" /\ ret.max_depth = None
    /\ KeysOf(get_children(vertices, edges, ret.o, ret.id)) = <<rm_2, rm_1>>
    /\ KeysOf(ret.out) = <<rm_1, dr_1, rm_2>>

----------------------------------------------------------------------------
(* C23: in get_descendants with max_depth set, a vertex popped from the    *)
(* stack at a depth greater than max_depth is still added to the visited   *)
(* set, is excluded from the result, and is not expanded. The code tests   *)
(* the depth before visited.add: the vertex is not added to visited, and a *)
(* later pop of it within max_depth emits and expands it.                  *)

\* the entry on top of the stack of a running get_descendants
Top(st) == st.stack[Len(st.stack)]

\* this step of the loop pops a vertex not visited before at a depth
\* greater than max_depth
OverDepthPop ==
    /\ ret.op = "get_descendants:loop"
    /\ ret'.op = "get_descendants:loop"
    /\ ret.st.stack # <<>>
    /\ Top(ret.st)[1] \notin ret.st.visited
    /\ too_deep(ret.max_depth, Top(ret.st)[2])

\* the pop adds nothing to the result and asks for no children
PopEmitsAndExpandsNothing ==
    /\ ret'.st.descendants = ret.st.descendants
    /\ ret'.st.expanded = ret.st.expanded
    /\ ret'.st.stack = SubSeq(ret.st.stack, 1, Len(ret.st.stack) - 1)

\* the claim as written
C23_TooDeepIsVisited ==
    [][OverDepthPop =>
        /\ Top(ret.st)[1] \in ret'.st.visited
        /\ PopEmitsAndExpandsNothing]_vars

\* what the code does
C23_TooDeepIsNotVisited ==
    [][OverDepthPop =>
        /\ ret'.st.visited = ret.st.visited
        /\ PopEmitsAndExpandsNothing]_vars

\* the ids a run pops unvisited beyond max_depth, in order
RECURSIVE OverDepthPops(_, _, _, _)
OverDepthPops(o, element_id, max_depth, st) ==
    IF st.stack = <<>> THEN <<>>
    ELSE (IF Top(st)[1] \notin st.visited /\ too_deep(max_depth, Top(st)[2])
          THEN <<Top(st)[1]>> ELSE <<>>)
         \o OverDepthPops(o, element_id, max_depth,
                descend_step(vertices, edges, o, element_id, max_depth, st))

\* a call has returned a vertex that it had popped beyond max_depth before
C23_Witness ==
    /\ ret.op = "get_descendants"
    /\ \E v \in SeqToSet(OverDepthPops(ret.o, ret.id, ret.max_depth,
                                      descend_start(ret.id))) :
            v \in SeqToSet(KeysOf(ret.out))

----------------------------------------------------------------------------
(* C24: within one build_graph_from_data call every PART_OF/CONTAINS edge  *)
(* is upserted before any HAS_OPENING edge, and every HAS_OPENING edge     *)
(* before any CONNECTS_TO edge. The code applies the three rules element   *)
(* by element: the edges come in the order of the list, and in kind order  *)
(* within one element.                                                     *)

\* the edge upserts of a build, as positions in its record of writes
EdgeCalls(calls) == EdgeUpserts(calls, Kinds)

\* the place of a kind in the order of the rules
RuleOf(relationship) ==
    IF relationship \in {"PART_OF", "CONTAINS"} THEN 1
    ELSE IF relationship = "HAS_OPENING" THEN 2 ELSE 3

\* the id of the element an edge upsert was derived from
OwnerOf(c) ==
    IF c.relationship = "PART_OF" THEN c.from
    ELSE IF c.relationship \in {"CONTAINS", "HAS_OPENING"} THEN c.to
    ELSE c.properties[2]

\* the position in the list of the element with this id
PlaceOf(elements, id) == CHOOSE i \in 1..Len(elements) : elements[i].id = id

\* the claim as written
C24_KindOrderInBuild ==
    ret.op = "build_graph_from_data" =>
        \A i, j \in EdgeCalls(ret.calls) :
            RuleOf(ret.calls[i].relationship) < RuleOf(ret.calls[j].relationship)
                => i < j

\* what the code does
C24_ElementThenKindOrder ==
    ret.op = "build_graph_from_data" =>
        \A i, j \in EdgeCalls(ret.calls) :
            i < j =>
                LET a == PlaceOf(ret.elements, OwnerOf(ret.calls[i]))
                    b == PlaceOf(ret.elements, OwnerOf(ret.calls[j]))
                IN  /\ a <= b
                    /\ a = b => RuleOf(ret.calls[i].relationship)
                                    <= RuleOf(ret.calls[j].relationship)

\* the CONNECTS_TO upserts of a door come before the PART_OF upsert of the
\* window listed after it
C24_Witness ==
    /\ ret.op = "build_graph_from_data"
    /\ \E i, j \in EdgeCalls(ret.calls) :
            /\ i < j
            /\ ret.calls[i].relationship = "CONNECTS_TO"
            /\ ret.calls[j].relationship = "PART_OF"

----------------------------------------------------------------------------
(* C25: a Door yields CONNECTS_TO edges if and only if its connects has    *)
(* exactly two entries and both are vertices of the store; it then yields  *)
(* exactly two, one in each direction, each with via_door = the door's id. *)
(* A Door with one entry, with more than two, or with an entry that is an  *)
(* external anchor yields none, and an element of another type yields none *)
(* even if it carries connects. The code asks the store, not the anchor    *)
(* list: an anchor id that is a vertex is connected like any other.        *)

\* the CONNECTS_TO upserts of a build that carry via_door = id, in order
ConnectsCallsOf(calls, id) ==
    LET IsOf(c) == /\ c.call = "upsert_edge"
                   /\ c.relationship = "CONNECTS_TO"
                   /\ c.properties = <<"via_door", id>>
    IN  SelectSeq(calls, IsOf)

\* the element is a Door whose connects is two vertices of the store
ConnectsTwoVertices(el) ==
    /\ el.type = "Door"
    /\ el.connects # None
    /\ Len(el.connects[1]) = 2
    /\ el.connects[1][1] \in DOMAIN vertices
    /\ el.connects[1][2] \in DOMAIN vertices

\* the door's two upserts, there and back, or none
YieldsBothWaysOrNone(el) ==
    ConnectsCallsOf(ret.calls, el.id) =
        IF ConnectsTwoVertices(el)
        THEN <<EdgeCall(el.connects[1][1], el.connects[1][2], "CONNECTS_TO",
                        <<"via_door", el.id>>),
               EdgeCall(el.connects[1][2], el.connects[1][1], "CONNECTS_TO",
                        <<"via_door", el.id>>)>>
        ELSE <<>>

\* every CONNECTS_TO upsert of the build belongs to an element of the list
ConnectsCallsAreOwned ==
    \A c \in EdgeUpserts(ret.calls, {"CONNECTS_TO"}) :
        \E i \in 1..Len(ret.elements) :
            ret.calls[c].properties = <<"via_door", ret.elements[i].id>>

HasAnchorEntry(el) ==
    el.connects # None /\ SeqToSet(el.connects[1]) \cap Anchors # {}

C25_ConnectsIffTwoVertices ==
    ret.op = "build_graph_from_data" =>
        /\ ConnectsCallsAreOwned
        /\ \A i \in 1..Len(ret.elements) :
                YieldsBothWaysOrNone(ret.elements[i])

\* the claim as written: a Door with an anchor among its entries yields none
C25_AnchorEntryYieldsNone ==
    ret.op = "build_graph_from_data" =>
        /\ ConnectsCallsAreOwned
        /\ \A i \in 1..Len(ret.elements) :
                /\ YieldsBothWaysOrNone(ret.elements[i])
                /\ HasAnchorEntry(ret.elements[i]) =>
                        ConnectsCallsOf(ret.calls, ret.elements[i].id) = <<>>

\* a door between a room and the vertex "corridor" got its two edges
C25_Witness ==
    /\ ret.op = "build_graph_from_data"
    /\ \E i \in 1..Len(ret.elements) :
            /\ HasAnchorEntry(ret.elements[i])
            /\ Len(ConnectsCallsOf(ret.calls, ret.elements[i].id)) = 2

\* a build with a window that carries a connects of two vertices
C25_WitnessWindow ==
    /\ ret.op = "build_graph_from_data"
    /\ \E i \in 1..Len(ret.elements) :
            /\ ret.elements[i].type = "Window"
            /\ ret.elements[i].connects # None
            /\ SeqToSet(ret.elements[i].connects[1]) \subseteq DOMAIN vertices

\* the other cases of the claim: one entry, three entries, an anchor that is
\* no vertex
C25_WitnessNone ==
    /\ ret.op = "build_graph_from_data"
    /\ \E i \in 1..Len(ret.elements) :
            /\ ret.elements[i].type = "Door"
            /\ ret.elements[i].connects # None
            /\ Len(ret.elements[i].connects[1]) = 3
            /\ SeqToSet(ret.elements[i].connects[1]) \subseteq DOMAIN vertices

----------------------------------------------------------------------------
(* C26: for every store, also with vertices that have several CONTAINS     *)
(* parents, and every max_depth d >= 1, get_descendants(id, d) returns     *)
(* exactly the vertices other than id that a path of 1 to d outbound       *)
(* CONTAINS edges reaches from id.                                         *)

\* the vertices other than id within 1..d CONTAINS edges of id
ContainsWithin(E, id, d) ==
    (Within(E, Succ(E, id, {"CONTAINS"}), d - 1, {"CONTAINS"}) \ {id})
        \cap DOMAIN vertices

C26_ExactlyWithinDepth ==
    (/\ ret.op = "get_descendants"
     /\ ret.max_depth # None
     /\ ret.max_depth[1] >= 1) =>
        SeqToSet(KeysOf(ret.out)) = ContainsWithin(edges, ret.id, ret.max_depth[1])

\* the half that holds: nothing is returned that needs more than d edges
C26_NoneBeyondDepth ==
    (/\ ret.op = "get_descendants"
     /\ ret.max_depth # None
     /\ ret.max_depth[1] >= 1) =>
        SeqToSet(KeysOf(ret.out))
            \subseteq ContainsWithin(edges, ret.id, ret.max_depth[1])

\* several parents: a vertex within d edges is missing from the result
C26_Witness ==
    /\ ret.op = "get_descendants"
    /\ ret.max_depth = Some(2)
    /\ \E v \in ContainsWithin(edges, ret.id, 2) : v \notin SeqToSet(KeysOf(ret.out))

----------------------------------------------------------------------------
(* C27: after every build_graph_from_data or delete_all_data, in any       *)
(* sequence, the stored edges are mirrored: PART_OF(c to p) is present if  *)
(* and only if CONTAINS(p to c) is, CONNECTS_TO(a to b) if and only if     *)
(* CONNECTS_TO(b to a) is; so b is in get_connected_rooms(a) exactly when  *)
(* a is in get_connected_rooms(b).                                         *)

HasEdge(from, kind, to) == <<Handle(from), kind, Handle(to)>> \in Triples(edges)

\* the keys the edges of the store begin or end in
EdgeEnds == {KeyOf(edges[k]._from) : k \in DOMAIN edges}
                \cup {KeyOf(edges[k]._to) : k \in DOMAIN edges}

C27_EdgesMirrored ==
    /\ \A c \in EdgeEnds, p \in EdgeEnds :
            HasEdge(c, "PART_OF", p) <=> HasEdge(p, "CONTAINS", c)
    /\ \A a \in EdgeEnds, b \in EdgeEnds :
            HasEdge(a, "CONNECTS_TO", b) <=> HasEdge(b, "CONNECTS_TO", a)
    /\ \A a \in QIds, o \in IdOrders :
            \A b \in SeqToSet(KeysOf(get_connected_rooms(vertices, edges, o, a))) :
                a \in SeqToSet(KeysOf(get_connected_rooms(vertices, edges, o, b)))

\* a build on a store in which a room kept the edges to its former parent,
\* with two rooms connected
C27_Witness ==
    /\ ret.op = "build_graph_from_data"
    /\ DOMAIN ret.before.E # {}
    /\ \E c \in EdgeEnds :
            Cardinality({p \in EdgeEnds : HasEdge(c, "PART_OF", p)}) >= 2
    /\ \E a \in QIds, b \in QIds :
            /\ a # b
            /\ b \in SeqToSet(KeysOf(get_connected_rooms(vertices, edges,
                                        [ids |-> IdOrderUp, kinds |-> KindOrderPartOfFirst], a)))

----------------------------------------------------------------------------
(* C28: after any sequence of build_graph_from_data calls, also without a  *)
(* reset between them and with lists that change an element's parent_id,   *)
(* every vertex has at most one outbound PART_OF edge, and that edge       *)
(* points to the parent_id the vertex holds.                               *)

PartOfTargets(v) == {p \in EdgeEnds : HasEdge(v, "PART_OF", p)}

OnePartOfToStoredParent ==
    \A v \in DOMAIN vertices :
        /\ Cardinality(PartOfTargets(v)) <= 1
        /\ \A p \in PartOfTargets(v) : vertices[v].parent_id = Some(p)

C28_OnePartOfEdge == OnePartOfToStoredParent

\* what holds: the store a build on the empty store leaves
C28_OnePartOfEdgeAfterFirstBuild ==
    (/\ ret.op = "build_graph_from_data"
     /\ DOMAIN ret.before.V = {}
     /\ NoRepeat(KeysOf(ret.elements))) => OnePartOfToStoredParent

\* a vertex whose parent was changed by a later build
C28_Witness ==
    /\ ret.op = "build_graph_from_data"
    /\ \E v \in DOMAIN vertices : Cardinality(PartOfTargets(v)) = 2

----------------------------------------------------------------------------
(* C29: after build_graph_from_data on an empty store with a validated     *)
(* list, the "edges" count it returns equals the number of distinct edges  *)
(* the store holds, also when two Doors connect the same pair of rooms or  *)
(* a Door's connects names the same room twice.                            *)

\* the last operation was a build of a valid list on the empty store
BuiltValidOnEmpty ==
    /\ ret.op = "build_graph_from_data"
    /\ DOMAIN ret.before.V = {} /\ DOMAIN ret.before.E = {}
    /\ ValidInput(ret.elements)

C29_CountIsStoredEdges ==
    BuiltValidOnEmpty => ret.out.edges = Cardinality(DOMAIN edges)

\* what holds: the count is the number of upserts, the store holds one edge
\* per (from, kind, to) among them
C29_CountIsUpserts ==
    BuiltValidOnEmpty =>
        /\ ret.out.edges = Cardinality(EdgeCalls(ret.calls))
        /\ Cardinality(DOMAIN edges) = Cardinality(Triples(edges))
        /\ Triples(edges) =
                {<<Handle(ret.calls[c].from), ret.calls[c].relationship,
                   Handle(ret.calls[c].to)>> : c \in EdgeCalls(ret.calls)}
        /\ ret.out.edges >= Cardinality(DOMAIN edges)

\* two doors between the same two rooms
C29_Witness ==
    /\ BuiltValidOnEmpty
    /\ Cardinality(EdgeUpserts(ret.calls, {"CONNECTS_TO"})) = 4
    /\ Cardinality({k \in DOMAIN edges : edges[k].relationship = "CONNECTS_TO"}) = 2

----------------------------------------------------------------------------
(* C30: build_graph_from_data upserts every vertex of the list before any  *)
(* edge, so on the empty store the vertices and the edges (from, kind, to) *)
(* it leaves are the same for every order of the list: an element listed   *)
(* before its parent, or a Door before the rooms it connects, still gets   *)
(* all its edges.                                                          *)

\* the orders of a list
Orderings(els) ==
    {[i \in 1..Len(els) |-> els[s[i]]] :
        s \in {t \in [1..Len(els) -> 1..Len(els)] :
                \A i, j \in 1..Len(els) : i # j => t[i] # t[j]}}

\* the store a build of the list leaves when it starts on the empty store
BuiltFromEmpty(els) == build_graph_from_data(EmptyColl, EmptyColl, els)

VerticesBeforeEdges(calls) ==
    \A i, j \in 1..Len(calls) :
        (calls[i].call = "upsert_vertex" /\ calls[j].call = "upsert_edge")
            => i < j

C30_OrderOfListIsIrrelevant ==
    (/\ ret.op = "build_graph_from_data"
     /\ DOMAIN ret.before.V = {} /\ DOMAIN ret.before.E = {}) =>
        /\ VerticesBeforeEdges(ret.calls)
        /\ \A els \in Orderings(ret.elements) :
                /\ BuiltFromEmpty(els).V = vertices
                /\ Triples(BuiltFromEmpty(els).E) = Triples(edges)

\* the door is listed first, then the room under rm_1, then rm_1: the door
\* has its PART_OF, CONTAINS, HAS_OPENING and both CONNECTS_TO edges
C30_Witness ==
    /\ ret.op = "build_graph_from_data"
    /\ DOMAIN ret.before.V = {}
    /\ KeysOf(ret.elements) = <<dr_1, rm_2, rm_1>>
    /\ HasEdge(dr_1, "PART_OF", rm_1)
    /\ HasEdge(rm_1, "HAS_OPENING", dr_1)
    /\ HasEdge(rm_1, "CONNECTS_TO", rm_2)
    /\ HasEdge(rm_2, "CONNECTS_TO", rm_1)
    /\ HasEdge(rm_2, "PART_OF", rm_1)
    /\ ret.out.edges = 7

====
